---- MODULE Spec2Model ----
(***************************************************************************)
(* CoSim WebRTC signaling relay (webrtc-signaling/server.js and            *)
(* webrtc-signaling/stateStore.js) as a state machine.                     *)
(*                                                                         *)
(* Several signaling nodes share one Redis instance.  Every node keeps its *)
(* own `clients` and `rooms` maps, mirrors room membership into Redis      *)
(* through its StateStore, and forwards offer/answer/ice-candidate         *)
(* messages either directly (target on the same node) or through the       *)
(* `signaling:relay` pub/sub channel.                                      *)
(*                                                                         *)
(* Handlers are async functions.  A handler runs without interruption up   *)
(* to its next `await` of a Redis command; the commands a node issues on   *)
(* its StateStore connection are executed by Redis in the order they were  *)
(* issued and their replies resume the awaiting handlers in that order.    *)
(* redisQ[n] is that per-connection command queue: one entry per           *)
(* suspended handler, holding the handler's locals and the command it      *)
(* awaits.  Commands of different nodes interleave freely.                 *)
(***************************************************************************)
EXTENDS Integers, Sequences, FiniteSets, TLC

NULL == "null"

\* Deployment under analysis: two nodes with clients, one node without.
Nodes == {"A", "B", "C"}
ClientIds == {"a1", "a2", "b1"}
Home == [c \in ClientIds |-> IF c = "b1" THEN "B" ELSE "A"]
Rooms == {"r1", "r2"}
Roles == {"viewer"}
SigTypes == {"offer", "answer", "ice-candidate"}
\* what a message of each type carries (its `offer`, `answer` or `candidate` field)
Payloads(type) ==
  CASE type = "offer" -> {"sdp-offer"}
    [] type = "answer" -> {"sdp-answer"}
    [] type = "ice-candidate" -> {"candidate"}
\* an id no connection was ever given
Nobody == "nobody"
TargetIds == ClientIds \cup {Nobody}

\* The signaling scenarios: who sends signaling messages, who joins a room
\* (once), who disconnects, and the targets a sender names (any id but its own)
Senders == {"a1"}
Joiners == {"a1", "b1"}
Closers == {"a1", "b1"}
Targets(c) == TargetIds \ {c}
Locals == {c \in ClientIds : Home[c] = "A"}

\* What a join message may carry: a room or role name, nothing, or the empty string
JoinRoles == {"viewer", "broadcaster"}
RoomInputs == Rooms \cup {NULL, ""}
RoleInputs == Roles \cup {NULL, ""}

\* Bounds of the exploration: join/leave messages in the membership scenario,
\* signaling messages in the relay, ordering and failure scenarios
MaxRoomOps == 3
MaxSends == 1
MaxCrossSends == 1
MaxFifoSends == 3
MaxFailSends == 1
MaxJoinOps == 3
MaxOrderlyOps == 3
MaxChurnOps == 3
MaxNotifyOps == 4
MaxInputOps == 3
MaxOutageOps == 3
MaxEdits == 2
MaxLinks == 3
MaxAwChanges == 2
MaxAwLinks == 3
MaxTasks == 4
MaxRetries == 3
MaxIdeOps == 4
MaxManualRuns == 1

\* Program constants
HEARTBEAT_MS == 5000
SERVER_TTL_S == 30
WORKSPACE_WAIT_MS == 500
AUTO_SAVE_INTERVAL_MS == 3000
SETTLE_WAIT_MS == 1000

VARIABLES
  nodeUp,     \* node -> process is running
  expired,    \* node -> the 30 s heartbeat TTL has run out since the node stopped
  clients,    \* client -> [conn, inMap, roomId, role]: socket state and `clients` map entry
  rooms,      \* node -> (roomId -> set of sockets): the node's `rooms` map
  redis,      \* the shared store: [hashes, members, index, servers]
  redisQ,     \* node -> FIFO of handlers suspended on a StateStore command
  relayQ,     \* node -> FIFO of envelopes received on the relay subscription
  msgs,       \* history: the signaling messages clients have sent, in send order
  inbox,      \* history: client -> what its socket was sent (signaling and errors)
  notes,      \* history: client -> the other messages its socket was sent
              \* (welcome, joined, peer-joined, peer-left, request errors)
  published,  \* history: ids of the messages published on the relay channel
  opsLeft,    \* join/leave messages still to be sent
  sendsLeft,  \* signaling messages still to be sent
  frames      \* history: [c, frame]: the frames no handler exists for, as received

\* The collaboration server (collab-server): one shared document
VARIABLES
  editors,    \* editor -> [conn, ydoc]: its socket and its own copy of the document
  docs,       \* node -> [inst, ydoc, bound]: the node's `docs` entry (inst 0: none),
              \* the document's content and whether the persistence listener is on
  insts,      \* node -> number of document instances the node has created
  docStore,   \* the value under the document's key (NoKey: none)
  persistQ,   \* node -> FIFO of the commands of the node's RedisPersistence connection
  lastLoad,   \* history: node -> what the last _loadState read and did
  made,       \* history: number of updates the editors have made
  editsLeft,  \* updates still to be made
  linksLeft,  \* connections still to be opened
  awareness,  \* node -> (editor -> [clock, on]): the awareness of the node's document
  bridge,     \* node -> [inst, sub]: RedisAwareness.boundDocs (inst 0: no entry) and
              \* the state of the channel subscription
  awQ,        \* node -> FIFO of the channel messages on the way to the node's subscriber
  pubCount,   \* history: awareness change -> number of times it was published
  applied     \* history: [node, change, by]: channel messages handleMessage applied

\* The workspace page (frontend/src/routes/Workspace.tsx)
VARIABLES
  page,       \* the component's state: the query results (project, workspaces),
              \* activeWorkspaceId, activeSessionId, hasAutoPlayed, executionOutput.status
  tasks,      \* the loadAndPlayDemo calls: [pc, wsEmpty, aw, sess, run], with the
              \* values of the render that started them
  runs,       \* the handleRunSimulation calls: [pc, sess, task]
  timers,     \* the pending setTimeout calls in the order they were set: [task, ms]
  backend,    \* [workspaces, created, refetch]: the project's workspaces on the
              \* server, how many the page created, is a refetch under way
  reqs        \* history: run -> the simulation requests it sent and the responses
              \* it received, in order

\* The session IDE (SessionIDE component)
VARIABLES
  ide,            \* the component's state and refs: isLoadingFiles, selectedFile,
                  \* fileContents, savedContentsRef, autoSaveTimerRef, providerRef,
                  \* is the editor mounted; quiet: history, time since the selected
                  \* file's content or the selection last changed
  autoSaveTimers, \* the pending auto-save timeouts: [id, path, content, left]
  uploads,        \* the upsertWorkspaceFile calls under way: [path, content]
  sentWrites,     \* history: the writes the auto-save has sent
  providers,      \* the WebsocketProviders created: [room, live]
  ideLeft         \* edits, selections and saves the user still makes

workbench == <<ide, autoSaveTimers, uploads, sentWrites, providers, ideLeft>>

frontend == <<page, tasks, runs, timers, backend, reqs, workbench>>

aware == <<awareness, bridge, awQ, pubCount, applied>>

collab == <<editors, docs, insts, docStore, persistQ, lastLoad, made, editsLeft, linksLeft, aware>>

signaling == <<nodeUp, expired, clients, rooms, redis, redisQ, relayQ, msgs, inbox, notes, published, opsLeft, sendsLeft, frames>>

vars == <<nodeUp, expired, clients, rooms, redis, redisQ, relayQ, msgs, inbox, notes, published, opsLeft, sendsLeft, frames, collab, frontend>>

\* Collaboration deployment: two nodes, two editors on one and one on the other
CollabNodes == {"A", "B"}
Editors == {"e1", "e2", "e3"}
EditorHome == [e \in Editors |-> IF e = "e3" THEN "B" ELSE "A"]
\* one editor of each node
Remote == {"e1", "e3"}
\* GET of a key that does not exist
NoKey == [present |-> FALSE, base64 |-> <<>>]
NoLoad == [payload |-> NoKey, before |-> {}, after |-> {}]

\* A fresh awareness: no editor has a state
NoStates == [e \in Editors |-> [clock |-> 0, on |-> FALSE]]

\* The workspace page right after mount: no query has resolved
\* workspaces and sessions are numbered from 1; None is the id not yet known
None == 0
\* the query has no data yet
NoList == [data |-> FALSE, length |-> 0]
NoPage == [project |-> FALSE, workspaces |-> NoList, activeWorkspaceId |-> None,
           activeSessionId |-> None, hasAutoPlayed |-> FALSE, status |-> "idle"]
\* how many workspaces the project may have when the page is opened
Existing == {0, 1}
\* the page is opened on a project that has k workspaces
PageOpened(k) ==
  /\ page = NoPage
  /\ tasks = <<>>
  /\ runs = <<>>
  /\ timers = <<>>
  /\ backend = [workspaces |-> k, created |-> 0, refetch |-> FALSE]
  /\ reqs = <<>>
PageStarted == PageOpened(0)

\* The IDE's files and what the user types into them
Files == {"main.py", "utils.py"}
DefaultFile == "main.py"
Loaded == "print()"
Texts == {Loaded, "x", "y"}
\* time advances in steps of this many milliseconds
STEP_MS == 1000
\* collaboration is switched on for the IDE
enableCollaboration == TRUE
\* the IDE right after mount: the files are being loaded, no editor yet
NoIde == [isLoadingFiles |-> TRUE, selectedFile |-> NULL,
          fileContents |-> [f \in Files |-> ""], savedContentsRef |-> [f \in Files |-> ""],
          autoSaveTimerRef |-> None, mounted |-> FALSE, providerRef |-> None, quiet |-> 0]
IdeStarted ==
  /\ ide = NoIde
  /\ autoSaveTimers = {}
  /\ uploads = <<>>
  /\ sentWrites = {}
  /\ providers = <<>>

\* No collaboration node has a document; nothing is stored
CollabStarted ==
  /\ editors = [e \in Editors |-> [conn |-> "new", ydoc |-> {}]]
  /\ docs = [n \in CollabNodes |-> [inst |-> 0, ydoc |-> {}, bound |-> FALSE]]
  /\ insts = [n \in CollabNodes |-> 0]
  /\ docStore = NoKey
  /\ persistQ = [n \in CollabNodes |-> <<>>]
  /\ lastLoad = [n \in CollabNodes |-> NoLoad]
  /\ made = 0
  /\ awareness = [n \in CollabNodes |-> NoStates]
  /\ bridge = [n \in CollabNodes |-> [inst |-> 0, sub |-> "none"]]
  /\ awQ = [n \in CollabNodes |-> <<>>]
  /\ pubCount = <<>>
  /\ applied = {}

----------------------------------------------------------------------------
\* stateStore.js

NoHash == [id |-> NULL, roomId |-> NULL, role |-> NULL, serverId |-> NULL]

\* a registration that records no server
registerClientNoServer(st, serverId, id, roomId, role) ==
  [st EXCEPT !.index = @ \cup {roomId},
             !.members[roomId] = @ \cup {id},
             !.hashes[id] = [id |-> id, roomId |-> roomId, role |-> role,
                             serverId |-> NULL]]

\* registerClient: nothing without an id or a room; otherwise
\* MULTI { SADD index; SADD members; HSET client hash }, the role as `role || ''`
registerClient(st, serverId, id, roomId, role) ==
  IF id \in {NULL, ""} \/ roomId \in {NULL, ""} THEN st
  ELSE [st EXCEPT !.index = @ \cup {roomId},
                  !.members[roomId] = @ \cup {id},
                  !.hashes[id] = [id |-> id, roomId |-> roomId,
                                  role |-> IF role \in {NULL, ""} THEN "" ELSE role,
                                  serverId |-> serverId]]

\* getClient: HGETALL; an empty reply (no id field) is null
getClient(st, clientId) ==
  IF clientId \notin ClientIds THEN NoHash
  ELSE IF st.hashes[clientId].id = NULL THEN NoHash
  ELSE st.hashes[clientId]

\* removeClient, first transaction: MULTI { DEL client hash; SREM members }
removeClientMulti(st, id, roomId) ==
  [st EXCEPT !.hashes[id] = NoHash,
             !.members[roomId] = @ \ {id}]

\* removeClient, second transaction: MULTI { DEL members; SREM index }
removeClientCleanup(st, roomId) ==
  [st EXCEPT !.members[roomId] = {},
             !.index = @ \ {roomId}]

\* a count that never reports an empty set
removeClientScardOne(st, roomId) == 1

\* removeClient, SCARD of the room's member set
removeClientScard(st, roomId) == Cardinality(st.members[roomId])

\* removeClient as one call with no other command in between
removeClient(st, id, roomId) ==
  LET st1 == removeClientMulti(st, id, roomId)
  IN IF removeClientScard(st1, roomId) = 0 THEN removeClientCleanup(st1, roomId) ELSE st1

\* listParticipants: SMEMBERS, then a pipeline of HGETALL
listParticipants(st, memberIds) ==
  {[id |-> st.hashes[m].id, role |-> st.hashes[m].role] :
      m \in {x \in memberIds : st.hashes[x].id # NULL}}

\* setHeartbeat: HSET servers:{node}; EXPIRE 30
setHeartbeat(st, serverId) == [st EXCEPT !.servers = @ \cup {serverId}]

\* cleanupServerState: DEL servers:{node}
cleanupServerState(st, serverId) == [st EXCEPT !.servers = @ \ {serverId}]

----------------------------------------------------------------------------
\* server.js helpers

\* a scan that stops at the first entry of the map, whatever its id
findClientByIdFirst(n, clientId) ==
  IF \E c \in ClientIds : Home[c] = n /\ clients[c].inMap
  THEN CHOOSE c \in ClientIds : Home[c] = n /\ clients[c].inMap
  ELSE NULL

\* findClientById: scan of the node's `clients` map
findClientById(n, clientId) ==
  IF \E c \in ClientIds : c = clientId /\ Home[c] = n /\ clients[c].inMap
  THEN clientId ELSE NULL

\* a send that writes the message twice
sendTwice(ib, c, m) ==
  IF clients[c].conn = "open" THEN [ib EXCEPT ![c] = Append(Append(@, m), m)] ELSE ib

\* send: only a socket whose readyState is OPEN is written to
send(ib, c, m) ==
  IF clients[c].conn = "open" THEN [ib EXCEPT ![c] = Append(@, m)] ELSE ib

\* rooms.get(roomId).delete(ws); rooms.delete(roomId) when the set is empty
roomsLeave(rm, r, c) ==
  IF r \in DOMAIN rm
  THEN IF rm[r] \ {c} = {}
       THEN [x \in DOMAIN rm \ {r} |-> rm[x]]
       ELSE [rm EXCEPT ![r] = @ \ {c}]
  ELSE rm

\* if (!rooms.has(roomId)) rooms.set(roomId, new Set()); rooms.get(roomId).add(ws)
roomsJoin(rm, r, c) ==
  [x \in DOMAIN rm \cup {r} |->
     IF x = r THEN (IF r \in DOMAIN rm THEN rm[r] ELSE {}) \cup {c} ELSE rm[x]]

EmptyRooms == [x \in {} |-> {}]

\* broadcast: every socket of the node's room set but the sender's is sent m
broadcast(nt, n, sender, roomId, m) ==
  IF roomId \notin DOMAIN rooms[n] THEN nt
  ELSE [d \in ClientIds |->
          IF d \in rooms[n][roomId] \ {sender} /\ clients[d].conn = "open"
          THEN Append(nt[d], m) ELSE nt[d]]

\* The messages of the room protocol
Note(type) == [type |-> type, roomId |-> NULL, role |-> NULL, peerId |-> NULL,
               participants |-> {}, error |-> NULL]
Welcome(c) == [Note("welcome") EXCEPT !.peerId = c]
JoinRejected == [Note("error") EXCEPT !.error = "roomId and role are required"]
JoinedMsg(roomId, role, participants) ==
  [Note("joined") EXCEPT !.roomId = roomId, !.role = role, !.participants = participants]
PeerJoined(c, role) == [Note("peer-joined") EXCEPT !.peerId = c, !.role = role]
PeerLeft(c) == [Note("peer-left") EXCEPT !.peerId = c]

\* a check that lets the empty string through
falsyNullOnly(v) == v = NULL

\* !roomId, !role: a missing field and the empty string are both rejected
falsy(v) == v \in {NULL, ""}

\* A suspended handler: its kind, the command it awaits and its locals
Task(kind, pc, c) ==
  [kind |-> kind, pc |-> pc, c |-> c, roomId |-> NULL, role |-> NULL,
   leaveRoom |-> NULL, memberIds |-> {}, id |-> 0]

\* The forwarded signaling message {type, fromId, <payload>}
Forwarded(i) ==
  [type |-> msgs[i].type, fromId |-> msgs[i].from, body |-> msgs[i].payload, id |-> i]

\* error: `Target client ${targetId} not found`
TargetMissing(i) ==
  [type |-> "error", fromId |-> NULL, body |-> msgs[i].to, id |-> i]

\* an envelope with the two server ids swapped
EnvelopeSwapped(origin, target, targetId, message) ==
  [originServerId |-> target, targetServerId |-> origin,
   targetId |-> targetId, message |-> message]

\* The relay envelope, JSON.stringify on publish and JSON.parse on receipt
Envelope(origin, target, targetId, message) ==
  [originServerId |-> origin, targetServerId |-> target,
   targetId |-> targetId, message |-> message]

----------------------------------------------------------------------------
\* Every node has started and subscribed to the relay channel; nobody is connected
SignalingStarted ==
  /\ nodeUp = [n \in Nodes |-> TRUE]
  /\ expired = [n \in Nodes |-> FALSE]
  /\ clients = [c \in ClientIds |->
                  [conn |-> "new", inMap |-> FALSE, roomId |-> NULL, role |-> NULL]]
  /\ rooms = [n \in Nodes |-> EmptyRooms]
  /\ redis = [hashes |-> [c \in ClientIds |-> NoHash],
              members |-> [r \in Rooms |-> {}],
              index |-> {},
              servers |-> {}]
  /\ redisQ = [n \in Nodes |-> <<>>]
  /\ relayQ = [n \in Nodes |-> <<>>]
  /\ msgs = <<>>
  /\ inbox = [c \in ClientIds |-> <<>>]
  /\ notes = [c \in ClientIds |-> <<>>]
  /\ published = {}
  /\ frames = <<>>

Started ==
  /\ SignalingStarted
  /\ CollabStarted
  /\ PageStarted
  /\ IdeStarted
  /\ ideLeft = 0

Init ==
  /\ Started
  /\ opsLeft = MaxRoomOps
  /\ sendsLeft = 0
  /\ editsLeft = 0
  /\ linksLeft = 0

InitRelay ==
  /\ Started
  /\ opsLeft = Cardinality(Joiners)
  /\ sendsLeft = MaxSends
  /\ editsLeft = 0
  /\ linksLeft = 0

InitCross ==
  /\ Started
  /\ opsLeft = Cardinality(Joiners)
  /\ sendsLeft = MaxCrossSends
  /\ editsLeft = 0
  /\ linksLeft = 0

InitFifo ==
  /\ Started
  /\ opsLeft = Cardinality(Joiners)
  /\ sendsLeft = MaxFifoSends
  /\ editsLeft = 0
  /\ linksLeft = 0

InitJoin ==
  /\ Started
  /\ opsLeft = MaxJoinOps
  /\ sendsLeft = 0
  /\ editsLeft = 0
  /\ linksLeft = 0

InitOrderly ==
  /\ Started
  /\ opsLeft = MaxOrderlyOps
  /\ sendsLeft = 0
  /\ editsLeft = 0
  /\ linksLeft = 0

InitChurn ==
  /\ Started
  /\ opsLeft = MaxChurnOps
  /\ sendsLeft = 0
  /\ editsLeft = 0
  /\ linksLeft = 0

InitFail ==
  /\ Started
  /\ opsLeft = Cardinality(Joiners)
  /\ sendsLeft = MaxFailSends
  /\ editsLeft = 0
  /\ linksLeft = 0

\* wss.on('connection'): a new socket gets a fresh id and a `clients` entry
Connect(c) ==
  /\ nodeUp[Home[c]]
  /\ clients[c].conn = "new"
  /\ clients' = [clients EXCEPT ![c] = [conn |-> "open", inMap |-> TRUE,
                                        roomId |-> NULL, role |-> NULL]]
  /\ notes' = [notes EXCEPT ![c] = Append(@, Welcome(c))]
  /\ UNCHANGED <<nodeUp, expired, rooms, redis, redisQ, relayQ, msgs, inbox, published, opsLeft, sendsLeft, frames, collab, frontend>>

\* a handleLeave that never returns early
noRoomNever(client) == FALSE

\* handleLeave: `if (!client.roomId) return`
noRoom(client) == falsy(client.roomId)

\* handleLeave up to its await: leave the local room set (peers are told
\* peer-left) and drop the set when it is empty
handleLeaveLocal(c) ==
  /\ rooms' = [rooms EXCEPT ![Home[c]] = roomsLeave(@, clients[c].roomId, c)]
  /\ notes' = broadcast(notes, Home[c], c, clients[c].roomId, PeerLeft(c))

\* handleJoin from "Join new room" up to `await stateStore.registerClient`
handleJoinLocal(c, roomId, role) ==
  /\ clients' = [clients EXCEPT ![c].roomId = roomId, ![c].role = role]
  /\ rooms' = [rooms EXCEPT ![Home[c]] = roomsJoin(@, roomId, c)]

\* commands that overtake the ones issued before them
EnqueueFront(q, n, t) == [q EXCEPT ![n] = <<t>> \o @]

\* A command issued on the node's one StateStore connection goes behind the
\* commands issued before it
Enqueue(q, n, t) == [q EXCEPT ![n] = Append(@, t)]

\* ws.on('message') with {type: 'join', roomId, role}
RecvJoin(c, roomId, role) ==
  /\ clients[c].conn = "open"
  /\ opsLeft > 0
  /\ opsLeft' = opsLeft - 1
  /\ IF falsy(roomId) \/ falsy(role)
     THEN /\ notes' = send(notes, c, JoinRejected)
          /\ UNCHANGED <<clients, rooms, redisQ>>
     ELSE IF clients[c].roomId # NULL
     THEN /\ handleLeaveLocal(c)
          /\ redisQ' = Enqueue(redisQ, Home[c],
                 [Task("join", "rm_multi", c) EXCEPT
                    !.roomId = roomId, !.role = role, !.leaveRoom = clients[c].roomId])
          /\ UNCHANGED clients
     ELSE /\ handleJoinLocal(c, roomId, role)
          /\ redisQ' = Enqueue(redisQ, Home[c],
                 [Task("join", "reg", c) EXCEPT !.roomId = roomId, !.role = role])
          /\ UNCHANGED notes
  /\ UNCHANGED <<nodeUp, expired, redis, relayQ, msgs, inbox, published, sendsLeft, frames, collab, frontend>>

\* ws.on('message') with {type: 'leave'}
RecvLeave(c) ==
  /\ clients[c].conn = "open"
  /\ opsLeft > 0
  /\ opsLeft' = opsLeft - 1
  /\ IF noRoom(clients[c])
     THEN UNCHANGED <<rooms, redisQ, notes>>
     ELSE /\ handleLeaveLocal(c)
          /\ redisQ' = Enqueue(redisQ, Home[c],
                 [Task("leave", "rm_multi", c) EXCEPT !.leaveRoom = clients[c].roomId])
  /\ UNCHANGED <<nodeUp, expired, clients, redis, relayQ, msgs, inbox, published, sendsLeft, frames, collab, frontend>>

\* ws.on('close'): handleDisconnect
Close(c) ==
  /\ clients[c].conn = "open"
  /\ IF noRoom(clients[c])
     THEN /\ clients' = [clients EXCEPT ![c].conn = "closed", ![c].inMap = FALSE]
          /\ UNCHANGED <<rooms, redisQ, notes>>
     ELSE /\ clients' = [clients EXCEPT ![c].conn = "closed"]
          /\ handleLeaveLocal(c)
          /\ redisQ' = Enqueue(redisQ, Home[c],
                 [Task("disc", "rm_multi", c) EXCEPT !.leaveRoom = clients[c].roomId])
  /\ UNCHANGED <<nodeUp, expired, redis, relayQ, msgs, inbox, published, opsLeft, sendsLeft, frames, collab, frontend>>

\* Has c finished joining a room: it is registered and none of its handlers is suspended
Quiet(c) == \A k \in 1..Len(redisQ[Home[c]]) : redisQ[Home[c]][k].c # c
Joined(c) == c \in ClientIds /\ clients[c].conn = "open" /\ Quiet(c) /\ redis.hashes[c].id # NULL
Connected(c) == c \in ClientIds /\ clients[c].conn = "open"

\* ws.on('message') with {type: offer | answer | ice-candidate, targetId, <payload>}:
\* handleOffer / handleAnswer / handleIceCandidate and relayOrSend up to its await.
\* The history keeps, next to the message, what held when it was sent (was the
\* target on the sender's node, were both in the same room) and when the store
\* was asked (lookup: was there a client hash; tconn: was the target connected).
RecvSignal(c, type, targetId, payload) ==
  /\ clients[c].conn = "open"
  /\ sendsLeft > 0
  /\ sendsLeft' = sendsLeft - 1
  /\ targetId \in ClientIds => clients[targetId].conn # "new"
  /\ LET i == Len(msgs) + 1
         message == [type |-> type, fromId |-> c, body |-> payload, id |-> i]
         targetWs == findClientById(Home[c], targetId)
     IN /\ msgs' = Append(msgs,
                [from |-> c, to |-> targetId, type |-> type, payload |-> payload,
                 local |-> targetId \in ClientIds /\ Home[targetId] = Home[c]
                             /\ clients[targetId].inMap,
                 sameRoom |-> Joined(c) /\ Joined(targetId)
                                /\ redis.hashes[c].roomId = redis.hashes[targetId].roomId,
                 lookup |-> "none", tconn |-> FALSE])
        /\ IF targetWs # NULL
           THEN /\ inbox' = send(inbox, targetWs, message)
                /\ UNCHANGED redisQ
           ELSE /\ redisQ' = Enqueue(redisQ, Home[c],
                       [Task("relay", "getClient", c) EXCEPT !.id = i])
                /\ UNCHANGED inbox
  /\ UNCHANGED <<nodeUp, expired, clients, rooms, redis, relayQ, notes, published, opsLeft, frames, collab, frontend>>

\* handleLeave after `await stateStore.removeClient`, then the caller's next lines
AfterRemove(n, t, rest) ==
  CASE t.kind = "leave" ->
         /\ clients' = [clients EXCEPT ![t.c].roomId = NULL, ![t.c].role = NULL]
         /\ redisQ' = [redisQ EXCEPT ![n] = rest]
         /\ UNCHANGED rooms
    [] t.kind = "disc" ->
         /\ clients' = [clients EXCEPT ![t.c].roomId = NULL, ![t.c].role = NULL,
                                         ![t.c].inMap = FALSE]
         /\ redisQ' = [redisQ EXCEPT ![n] = rest]
         /\ UNCHANGED rooms
    [] t.kind = "join" ->
         /\ handleJoinLocal(t.c, t.roomId, t.role)
         /\ redisQ' = [redisQ EXCEPT ![n] = Append(rest, [t EXCEPT !.pc = "reg"])]

\* handleJoin after `await stateStore.listParticipants`: the joiner is sent
\* 'joined' with the list and the others of the local room set 'peer-joined'
joinedReply(n, t, participants) ==
  broadcast(send(notes, t.c, JoinedMsg(t.roomId, t.role, participants)),
            n, t.c, t.roomId, PeerJoined(t.c, t.role))

\* every handler asking for the error
notifyMissingAlways(type) == TRUE

\* handleOffer and handleAnswer pass notifyMissing: true, handleIceCandidate false
notifyMissing(type) == type # "ice-candidate"

\* relayOrSend after `await stateStore.getClient`
relayOrSend(n, t, rest) ==
  LET i == t.id
      remoteClient == getClient(redis, msgs[i].to)
  IN /\ redisQ' = [redisQ EXCEPT ![n] = rest]
     /\ msgs' = [msgs EXCEPT
           ![i].lookup = IF msgs[i].to \in ClientIds /\ redis.hashes[msgs[i].to].id # NULL
                         THEN "present" ELSE "absent",
           ![i].tconn = Connected(msgs[i].to)]
     /\ IF remoteClient.id = NULL \/ remoteClient.serverId = NULL
        THEN /\ inbox' = IF notifyMissing(msgs[i].type) THEN send(inbox, t.c, TargetMissing(i)) ELSE inbox
             /\ UNCHANGED <<relayQ, published>>
        ELSE /\ relayQ' = [m \in Nodes |->
                    IF nodeUp[m]
                    THEN Append(relayQ[m],
                           Envelope(n, remoteClient.serverId, msgs[i].to, Forwarded(i)))
                    ELSE relayQ[m]]
             /\ published' = published \cup {i}
             /\ UNCHANGED inbox

\* Redis executes the oldest command of node n's StateStore connection and the
\* handler that awaited it runs on to its next await
RedisReply(n) ==
  /\ nodeUp[n]
  /\ redisQ[n] # <<>>
  /\ LET t == Head(redisQ[n])
         rest == Tail(redisQ[n])
     IN CASE t.pc = "rm_multi" ->
               /\ redis' = removeClientMulti(redis, t.c, t.leaveRoom)
               /\ redisQ' = [redisQ EXCEPT ![n] = Append(rest, [t EXCEPT !.pc = "rm_scard"])]
               /\ UNCHANGED <<clients, rooms, relayQ, msgs, inbox, notes, published>>
          [] t.pc = "rm_scard" ->
               /\ IF removeClientScard(redis, t.leaveRoom) = 0
                  THEN /\ redisQ' = [redisQ EXCEPT ![n] =
                                        Append(rest, [t EXCEPT !.pc = "rm_cleanup"])]
                       /\ UNCHANGED <<clients, rooms>>
                  ELSE AfterRemove(n, t, rest)
               /\ UNCHANGED <<redis, relayQ, msgs, inbox, notes, published>>
          [] t.pc = "rm_cleanup" ->
               /\ redis' = removeClientCleanup(redis, t.leaveRoom)
               /\ AfterRemove(n, t, rest)
               /\ UNCHANGED <<relayQ, msgs, inbox, notes, published>>
          [] t.pc = "reg" ->
               /\ redis' = registerClient(redis, n, t.c, t.roomId, t.role)
               /\ redisQ' = [redisQ EXCEPT ![n] =
                                Append(rest, [t EXCEPT !.pc = "list_smembers"])]
               /\ UNCHANGED <<clients, rooms, relayQ, msgs, inbox, notes, published>>
          [] t.pc = "list_smembers" ->
               /\ IF redis.members[t.roomId] = {}
                  THEN /\ redisQ' = [redisQ EXCEPT ![n] = rest]
                       /\ notes' = joinedReply(n, t, {})
                  ELSE /\ redisQ' = [redisQ EXCEPT ![n] =
                             Append(rest, [t EXCEPT !.pc = "list_hgetall",
                                                    !.memberIds = redis.members[t.roomId]])]
                       /\ UNCHANGED notes
               /\ UNCHANGED <<clients, rooms, redis, relayQ, msgs, inbox, published>>
          [] t.pc = "list_hgetall" ->
               /\ redisQ' = [redisQ EXCEPT ![n] = rest]
               /\ notes' = joinedReply(n, t, listParticipants(redis, t.memberIds))
               /\ UNCHANGED <<clients, rooms, redis, relayQ, msgs, inbox, published>>
          [] t.pc = "getClient" ->
               /\ relayOrSend(n, t, rest)
               /\ UNCHANGED <<clients, rooms, redis, notes>>
  /\ UNCHANGED <<nodeUp, expired, opsLeft, sendsLeft, frames, collab, frontend>>

\* relaySubscriber.on('message'): handleRelayDelivery
handleRelayDelivery(n) ==
  /\ nodeUp[n]
  /\ relayQ[n] # <<>>
  /\ LET payload == Head(relayQ[n])
         targetWs == findClientById(n, payload.targetId)
     IN /\ relayQ' = [relayQ EXCEPT ![n] = Tail(@)]
        /\ inbox' = IF payload.targetServerId # n THEN inbox
                    ELSE IF payload.originServerId = n THEN inbox
                    ELSE IF targetWs = NULL THEN inbox
                    ELSE send(inbox, targetWs, payload.message)
  /\ UNCHANGED <<nodeUp, expired, clients, rooms, redis, redisQ, msgs, notes, published, opsLeft, sendsLeft, frames, collab, frontend>>

\* heartbeatTimer: setHeartbeat every HEARTBEAT_MS
Heartbeat(n) ==
  /\ nodeUp[n]
  /\ redis' = setHeartbeat(redis, n)
  /\ UNCHANGED <<nodeUp, expired, clients, rooms, redisQ, relayQ, msgs, inbox, notes, published, opsLeft, sendsLeft, frames, collab, frontend>>

\* Redis drops servers:{n} once SERVER_TTL_S has passed without a refresh; a
\* running node refreshes every HEARTBEAT_MS
ExpireServer(n) ==
  /\ ~nodeUp[n] \/ SERVER_TTL_S * 1000 <= HEARTBEAT_MS
  /\ ~expired[n]
  /\ expired' = [expired EXCEPT ![n] = TRUE]
  /\ redis' = cleanupServerState(redis, n)
  /\ UNCHANGED <<nodeUp, clients, rooms, redisQ, relayQ, msgs, inbox, notes, published, opsLeft, sendsLeft, frames, collab, frontend>>

\* The process is gone: its sockets, maps and unsent commands with it
Stopped(n) ==
  /\ nodeUp' = [nodeUp EXCEPT ![n] = FALSE]
  /\ clients' = [c \in ClientIds |->
                   IF Home[c] = n /\ clients[c].conn # "new"
                   THEN [conn |-> "closed", inMap |-> FALSE, roomId |-> NULL, role |-> NULL]
                   ELSE clients[c]]
  /\ rooms' = [rooms EXCEPT ![n] = EmptyRooms]
  /\ redisQ' = [redisQ EXCEPT ![n] = <<>>]
  /\ relayQ' = [relayQ EXCEPT ![n] = <<>>]

\* The node is killed or loses power
Crash(n) ==
  /\ nodeUp[n]
  /\ Stopped(n)
  /\ UNCHANGED <<expired, redis, msgs, inbox, notes, published, opsLeft, sendsLeft, frames, collab, frontend>>

\* process.on('SIGTERM') with no handler suspended: the heartbeat record is
\* deleted and the connections are closed; no disconnect handler runs
Sigterm(n) ==
  /\ nodeUp[n]
  /\ redisQ[n] = <<>>
  /\ Stopped(n)
  /\ redis' = cleanupServerState(redis, n)
  /\ UNCHANGED <<expired, msgs, inbox, notes, published, opsLeft, sendsLeft, frames, collab, frontend>>

\* A client's first join
JoinOnce(c, roomId, role) ==
  /\ clients[c].roomId = NULL
  /\ RecvJoin(c, roomId, role)

\* Room membership: joins, leaves and disconnects in every interleaving
Next ==
  \/ \E c \in ClientIds : Connect(c)
  \/ \E c \in ClientIds, r \in Rooms, role \in Roles : RecvJoin(c, r, role)
  \/ \E c \in ClientIds : RecvLeave(c)
  \/ \E c \in Closers : Close(c)
  \/ \E n \in Nodes : RedisReply(n)

Spec == Init /\ [][Next]_vars

\* Signaling to targets that connect, join and disconnect, to bystanders and
\* to unknown ids
NextRelay ==
  \/ \E c \in ClientIds : Connect(c)
  \/ \E c \in Joiners \ Senders, r \in Rooms, role \in Roles : JoinOnce(c, r, role)
  \/ \E c \in Closers : Close(c)
  \/ \E c \in Senders, ty \in SigTypes :
        \E t \in Targets(c), p \in Payloads(ty) : RecvSignal(c, ty, t, p)
  \/ \E n \in Nodes : RedisReply(n)
  \/ \E n \in Nodes : handleRelayDelivery(n)

SpecRelay == InitRelay /\ [][NextRelay]_vars

\* Signaling between clients on different nodes that both join rooms
NextCross ==
  \/ \E c \in Joiners : Connect(c)
  \/ \E c \in Joiners, r \in Rooms, role \in Roles : JoinOnce(c, r, role)
  \/ \E c \in Closers \ Senders : Close(c)
  \/ \E c \in Senders, ty \in SigTypes :
        \E t \in Joiners \ {c}, p \in Payloads(ty) : RecvSignal(c, ty, t, p)
  \/ \E n \in Nodes : RedisReply(n)
  \/ \E n \in Nodes : handleRelayDelivery(n)

SpecCross == InitCross /\ [][NextCross]_vars

\* The event loop runs every handler whose command has been answered and every
\* relay message that has arrived
FairCross ==
  /\ SpecCross
  /\ \A n \in Nodes : WF_vars(RedisReply(n))
  /\ \A n \in Nodes : WF_vars(handleRelayDelivery(n))

\* Several messages of one sender to connected targets
NextFifo ==
  \/ \E c \in ClientIds : Connect(c)
  \/ \E c \in Joiners \ Senders, r \in Rooms, role \in Roles : JoinOnce(c, r, role)
  \/ \E c \in Senders, ty \in SigTypes :
        \E t \in Targets(c) \cap ClientIds, p \in Payloads(ty) : RecvSignal(c, ty, t, p)
  \/ \E n \in Nodes : RedisReply(n)
  \/ \E n \in Nodes : handleRelayDelivery(n)

SpecFifo == InitFifo /\ [][NextFifo]_vars

\* Nodes that stop, heartbeat records that expire
NextFail ==
  \/ \E c \in ClientIds : Connect(c)
  \/ \E c \in Joiners, r \in Rooms, role \in Roles : JoinOnce(c, r, role)
  \/ \E c \in Senders, ty \in SigTypes :
        \E t \in Targets(c), p \in Payloads(ty) : RecvSignal(c, ty, t, p)
  \/ \E n \in Nodes : RedisReply(n)
  \/ \E n \in Nodes : handleRelayDelivery(n)
  \/ \E n \in Nodes : Heartbeat(n)
  \/ \E n \in Nodes : ExpireServer(n)
  \/ \E n \in Nodes : Crash(n)
  \/ \E n \in Nodes : Sigterm(n)

SpecFail == InitFail /\ [][NextFail]_vars

\* Two clients on different nodes that wait for the outcome of a request before
\* they send the next one or disconnect
OrderlyJoin(c, roomId, role) == Quiet(c) /\ RecvJoin(c, roomId, role)
OrderlyLeave(c) == Quiet(c) /\ RecvLeave(c)
OrderlyClose(c) == Quiet(c) /\ Close(c)

NextOrderly ==
  \/ \E c \in Joiners : Connect(c)
  \/ \E c \in Joiners, r \in Rooms, role \in JoinRoles : OrderlyJoin(c, r, role)
  \/ \E c \in Joiners : OrderlyLeave(c)
  \/ \E c \in Closers : OrderlyClose(c)
  \/ \E n \in Nodes : RedisReply(n)

SpecOrderly == InitOrderly /\ [][NextOrderly]_vars

\* Two clients on different nodes that join, leave and disconnect without
\* waiting for anything
NextChurn ==
  \/ \E c \in Joiners : Connect(c)
  \/ \E c \in Joiners, r \in Rooms, role \in Roles : RecvJoin(c, r, role)
  \/ \E c \in Joiners : RecvLeave(c)
  \/ \E c \in Closers : Close(c)
  \/ \E n \in Nodes : RedisReply(n)

SpecChurn == InitChurn /\ [][NextChurn]_vars

\* Join messages of every shape, valid or not, from the clients of one node
NextJoin ==
  \/ \E c \in Locals : Connect(c)
  \/ \E c \in Locals, r \in RoomInputs, role \in RoleInputs : RecvJoin(c, r, role)
  \/ \E n \in Nodes : RedisReply(n)

SpecJoin == InitJoin /\ [][NextJoin]_vars
----------------------------------------------------------------------------
\* collab-server: redisPersistence.js under y-websocket
\*
\* A document is the set of the updates it has absorbed (Yjs merges by union:
\* commutative, associative, idempotent).  y-websocket creates the node's
\* document on the first connection and calls persistence.bindState; when the
\* last connection closes it calls persistence.writeState, destroys the
\* document and drops it from `docs`.  Updates travel between an editor and
\* its node in the same step as the edit; the commands of a node's
\* RedisPersistence connection are answered in the order they were issued.

\* an encoding that leaves out the newest update
RECURSIVE encodeStateAsUpdateStale(_)
encodeStateAsUpdateStale(ydoc) ==
  IF Cardinality(ydoc) <= 1 THEN <<>>
  ELSE LET m == CHOOSE x \in ydoc : \A y \in ydoc : x <= y
       IN <<m>> \o encodeStateAsUpdateStale(ydoc \ {m})

\* Y.encodeStateAsUpdate: the document's updates as one byte sequence
RECURSIVE encodeStateAsUpdate(_)
encodeStateAsUpdate(ydoc) ==
  IF ydoc = {} THEN <<>>
  ELSE LET m == CHOOSE x \in ydoc : \A y \in ydoc : x <= y
       IN <<m>> \o encodeStateAsUpdate(ydoc \ {m})

\* Buffer.from(bytes).toString('base64') and Buffer.from(payload, 'base64')
toBase64(bytes) == [present |-> TRUE, base64 |-> bytes]
fromBase64(payload) == payload.base64

\* Y.applyUpdate: the document absorbs the updates of the byte sequence
applyUpdate(ydoc, update) == ydoc \cup {update[k] : k \in 1..Len(update)}

\* the content of a stored value, as a fresh document loads it
Content(payload) == IF payload = NoKey THEN {} ELSE applyUpdate({}, fromBase64(payload))

\* writeState up to its await: SET key <base64 of the encoded document>
writeState(q, n, ydoc) ==
  [q EXCEPT ![n] = Append(@, [op |-> "set", inst |-> 0, ydoc |-> ydoc,
                              value |-> toBase64(encodeStateAsUpdate(ydoc))])]

\* bindState up to its first await: _loadState issues GET key
bindState(q, n, inst) ==
  [q EXCEPT ![n] = Append(@, [op |-> "get", inst |-> inst, ydoc |-> {}, value |-> NoKey])]

\* collab-server: redisAwareness.js
\*
\* An awareness holds, per editor, a clock and whether the editor has a state.
\* A channel message is the base64 of an awareness update (the changed editors
\* with clock and state); `by` and `change` are history, not part of it.

\* the origin RedisAwareness passes when it applies a channel message
RelayOrigin == "redis-awareness"

\* a handler that publishes whatever the origin
publishesAlways(origin, changed) == changed # {}

\* watch's handler: nothing is published for the relay's own origin or for an
\* empty change
publishes(origin, changed) == origin # RelayOrigin /\ changed # {}

\* awarenessProtocol.encodeAwarenessUpdate
encodeAwarenessUpdate(states, changed) ==
  {[client |-> e, clock |-> states[e].clock, on |-> states[e].on] : e \in changed}

\* awarenessProtocol.applyAwarenessUpdate: an entry is taken when its clock is
\* newer, or equal while it removes a state the awareness still has
Newer(states, u) ==
  \/ states[u.client].clock < u.clock
  \/ states[u.client].clock = u.clock /\ ~u.on /\ states[u.client].on
Changed(states, update) == {u.client : u \in {x \in update : Newer(states, x)}}
applyAwarenessUpdate(states, update) ==
  [e \in Editors |->
     IF e \in Changed(states, update)
     THEN LET u == CHOOSE x \in update : x.client = e /\ Newer(states, x)
          IN [clock |-> u.clock, on |-> u.on]
     ELSE states[e]]

\* publisher.publish: Redis hands the message to every established subscription
publish(q, by, change, payload) ==
  [m \in CollabNodes |->
     IF bridge[m].sub = "on"
     THEN Append(q[m], [payload |-> payload, by |-> by, change |-> change])
     ELSE q[m]]

\* is watch's handler registered on the awareness of node n's document
Watched(n) == docs[n].inst # 0 /\ bridge[n].inst = docs[n].inst

\* the awareness 'update' event of a change made on node n (not by the relay)
LocalChange(n, states, changed, origin) ==
  IF Watched(n) /\ publishes(origin, changed)
  THEN /\ awQ' = publish(awQ, n, Len(pubCount) + 1,
                         toBase64(encodeAwarenessUpdate(states, changed)))
       /\ pubCount' = Append(pubCount, 1)
  ELSE /\ UNCHANGED awQ
       /\ pubCount' = Append(pubCount, 0)

\* the node's sockets other than e's that are open
OpenPeers(n, e) == {x \in Editors \ {e} : EditorHome[x] = n /\ editors[x].conn = "open"}

\* the document's 'update' event reaches every open socket of the node
Broadcast(ed, n, ydoc) ==
  [x \in Editors |->
     IF EditorHome[x] = n /\ ed[x].conn = "open"
     THEN [ed[x] EXCEPT !.ydoc = @ \cup ydoc] ELSE ed[x]]

\* wss.on('connection'): setupWSConnection creates the document if the node has
\* none (and binds it to the persistence), then editor and node exchange what
\* the other lacks; awarenessBridge.watch registers its handler and subscribes
\* unless boundDocs has an entry for the document
CConnect(e) ==
  LET n == EditorHome[e]
      fresh == docs[n].inst = 0
      old == IF fresh THEN [inst |-> insts[n] + 1, ydoc |-> {}, bound |-> FALSE] ELSE docs[n]
      merged == old.ydoc \cup editors[e].ydoc
      q1 == IF fresh THEN bindState(persistQ, n, old.inst) ELSE persistQ
  IN /\ editors[e].conn # "open"
     /\ linksLeft > 0
     /\ linksLeft' = linksLeft - 1
     /\ insts' = IF fresh THEN [insts EXCEPT ![n] = @ + 1] ELSE insts
     /\ docs' = [docs EXCEPT ![n] = [old EXCEPT !.ydoc = merged]]
     /\ editors' = Broadcast([editors EXCEPT ![e].conn = "open"], n, merged)
     /\ persistQ' = IF old.bound /\ merged # old.ydoc THEN writeState(q1, n, merged) ELSE q1
     /\ awareness' = IF fresh THEN [awareness EXCEPT ![n] = NoStates] ELSE awareness
     /\ bridge' = IF bridge[n].inst # 0 THEN bridge
                  ELSE [bridge EXCEPT ![n] = [inst |-> old.inst, sub |-> "pending"]]
     /\ UNCHANGED <<docStore, lastLoad, made, editsLeft, signaling, frontend, awQ, pubCount, applied>>

\* An editor changes the document: the update reaches its node, the node's
\* other sockets and, if the listener is on, the persistence
CEdit(e) ==
  LET n == EditorHome[e]
      u == made + 1
      ydoc == docs[n].ydoc \cup {u}
  IN /\ editors[e].conn = "open"
     /\ editsLeft > 0
     /\ editsLeft' = editsLeft - 1
     /\ made' = u
     /\ docs' = [docs EXCEPT ![n].ydoc = ydoc]
     /\ editors' = Broadcast(editors, n, {u})
     /\ persistQ' = IF docs[n].bound THEN writeState(persistQ, n, ydoc) ELSE persistQ
     /\ UNCHANGED <<insts, docStore, lastLoad, linksLeft, signaling, frontend, aware>>

\* The socket closes: the editor's awareness state is removed; with the node's
\* last connection the document is written and dropped
CDisconnect(e) ==
  LET n == EditorHome[e]
  IN /\ editors[e].conn = "open"
     /\ editors' = [editors EXCEPT ![e].conn = "closed"]
     /\ IF awareness[n][e].on
        THEN LocalChange(n, [awareness[n] EXCEPT ![e] = [clock |-> @.clock + 1, on |-> FALSE]],
                         {e}, NULL)
        ELSE UNCHANGED <<awQ, pubCount>>
     /\ IF OpenPeers(n, e) = {}
        THEN /\ persistQ' = writeState(persistQ, n, docs[n].ydoc)
             /\ docs' = [docs EXCEPT ![n] = [inst |-> 0, ydoc |-> {}, bound |-> FALSE]]
             /\ awareness' = [awareness EXCEPT ![n] = NoStates]
        ELSE /\ UNCHANGED <<persistQ, docs>>
             /\ awareness' = [awareness EXCEPT ![n][e] =
                                IF @.on THEN [clock |-> @.clock + 1, on |-> FALSE] ELSE @]
     /\ UNCHANGED <<insts, docStore, lastLoad, made, editsLeft, linksLeft, signaling, frontend, bridge, applied>>

\* Redis answers the oldest command of node n's persistence connection.
\* GET: _loadState applies the stored value, then bindState puts the listener
\* on the document it was called for.  SET: the value replaces the stored one.
PersistReply(n) ==
  /\ persistQ[n] # <<>>
  /\ LET t == Head(persistQ[n])
     IN /\ persistQ' = [persistQ EXCEPT ![n] = Tail(@)]
        /\ IF t.op = "set"
           THEN /\ docStore' = t.value
                /\ UNCHANGED <<docs, editors, lastLoad>>
           ELSE /\ UNCHANGED docStore
                /\ IF t.inst # docs[n].inst
                   THEN UNCHANGED <<docs, editors, lastLoad>>
                   ELSE LET ydoc == IF docStore = NoKey THEN docs[n].ydoc
                                    ELSE applyUpdate(docs[n].ydoc, fromBase64(docStore))
                        IN /\ docs' = [docs EXCEPT ![n].ydoc = ydoc, ![n].bound = TRUE]
                           /\ editors' = Broadcast(editors, n, ydoc)
                           /\ lastLoad' = [lastLoad EXCEPT ![n] =
                                 [payload |-> docStore, before |-> docs[n].ydoc, after |-> ydoc]]
  /\ UNCHANGED <<insts, made, editsLeft, linksLeft, signaling, frontend, aware>>

\* An editor changes its awareness state (cursor, selection, name)
AwChange(e) ==
  LET n == EditorHome[e]
      states == [awareness[n] EXCEPT ![e] = [clock |-> @.clock + 1, on |-> TRUE]]
  IN /\ editors[e].conn = "open"
     /\ editsLeft > 0
     /\ editsLeft' = editsLeft - 1
     /\ awareness' = [awareness EXCEPT ![n] = states]
     /\ LocalChange(n, states, {e}, e)
     /\ UNCHANGED <<editors, docs, insts, docStore, persistQ, lastLoad, made, linksLeft,
                    signaling, frontend, bridge, applied>>

\* watch after `await this.subscriber.subscribe`: the subscription is established
AwSubscribed(n) ==
  /\ bridge[n].sub = "pending"
  /\ bridge' = [bridge EXCEPT ![n].sub = "on"]
  /\ UNCHANGED <<editors, docs, insts, docStore, persistQ, lastLoad, made, editsLeft,
                 linksLeft, signaling, frontend, awareness, awQ, pubCount, applied>>

\* subscriber.on('message'): handleMessage applies the payload, with the relay's
\* origin, to the awareness boundDocs holds for the document
handleMessage(n) ==
  /\ awQ[n] # <<>>
  /\ LET m == Head(awQ[n])
         rest == [awQ EXCEPT ![n] = Tail(@)]
         update == fromBase64(m.payload)
         changed == Changed(awareness[n], update)
     IN IF bridge[n].inst = 0 \/ ~m.payload.present
        THEN /\ awQ' = rest
             /\ UNCHANGED <<awareness, pubCount, applied>>
        ELSE /\ applied' = applied \cup {[node |-> n, change |-> m.change, by |-> m.by]}
             /\ IF Watched(n)
                THEN /\ awareness' = [awareness EXCEPT ![n] = applyAwarenessUpdate(@, update)]
                     /\ IF publishes(RelayOrigin, changed)
                        THEN /\ awQ' = publish(rest, n, m.change,
                                   toBase64(encodeAwarenessUpdate(awareness'[n], changed)))
                             /\ pubCount' = [pubCount EXCEPT ![m.change] = @ + 1]
                        ELSE /\ awQ' = rest
                             /\ UNCHANGED pubCount
                ELSE /\ awQ' = rest
                     /\ UNCHANGED <<awareness, pubCount>>
  /\ UNCHANGED <<editors, docs, insts, docStore, persistQ, lastLoad, made, editsLeft,
                 linksLeft, signaling, frontend, bridge>>

InitCollab ==
  /\ Started
  /\ opsLeft = 0
  /\ sendsLeft = 0
  /\ editsLeft = MaxEdits
  /\ linksLeft = MaxLinks

NextCollab ==
  \/ \E e \in Editors : CConnect(e)
  \/ \E e \in Editors : CEdit(e)
  \/ \E e \in Editors : CDisconnect(e)
  \/ \E n \in CollabNodes : PersistReply(n)

SpecCollab == InitCollab /\ [][NextCollab]_vars

\* Editors that type only once their node has loaded the stored document
PatientEdit(e) == docs[EditorHome[e]].bound /\ CEdit(e)

NextPatient ==
  \/ \E e \in Editors : CConnect(e)
  \/ \E e \in Editors : PatientEdit(e)
  \/ \E e \in Editors : CDisconnect(e)
  \/ \E n \in CollabNodes : PersistReply(n)

SpecPatient == InitCollab /\ [][NextPatient]_vars

InitAware ==
  /\ Started
  /\ opsLeft = 0
  /\ sendsLeft = 0
  /\ editsLeft = MaxAwChanges
  /\ linksLeft = MaxAwLinks

\* Awareness changes of two editors that connect and disconnect on different nodes
NextAware ==
  \/ \E e \in Remote : CConnect(e)
  \/ \E e \in Remote : CDisconnect(e)
  \/ \E e \in Remote : AwChange(e)
  \/ \E n \in CollabNodes : AwSubscribed(n)
  \/ \E n \in CollabNodes : handleMessage(n)
  \/ \E n \in CollabNodes : PersistReply(n)

SpecAware == InitAware /\ [][NextAware]_vars

\* Redis answers every subscribe and the event loop runs the 'message' handler
\* for every message that has arrived
FairAware ==
  /\ SpecAware
  /\ \A n \in CollabNodes : WF_vars(AwSubscribed(n))
  /\ \A n \in CollabNodes : WF_vars(handleMessage(n))

----------------------------------------------------------------------------
\* frontend: routes/Workspace.tsx
\*
\* A render is followed at once by the effects whose dependencies changed; an
\* async function runs up to its next await and its continuation is a later
\* step.  Responses arrive after any delay; of two timers the one set earlier
\* for a time not longer fires first.

\* the dependencies of the auto-play effect that can change
AutoPlayDeps(p) ==
  <<p.project, p.activeWorkspaceId, p.hasAutoPlayed, p.activeSessionId, p.workspaces>>

\* useEffect [workspaces]: the first workspace becomes the active one
selectFirst(p) ==
  IF p.workspaces.length = 0 \/ p.activeWorkspaceId # None
  THEN p
  ELSE [p EXCEPT !.activeWorkspaceId = 1]

\* the auto-play effect calls loadAndPlayDemo
autoPlays(p) == ~p.hasAutoPlayed /\ p.project /\ p.workspaces.data

\* loadAndPlayDemo after a workspace exists: skip on the values of its render,
\* or mark the page as played and wait for the wiring to settle
afterWorkspace(st, i) ==
  IF st.tasks[i].aw = None /\ st.tasks[i].wsEmpty
  THEN [st EXCEPT !.page.hasAutoPlayed = FALSE, !.tasks[i].pc = "skipped"]
  ELSE [st EXCEPT !.page.hasAutoPlayed = TRUE, !.tasks[i].pc = "settle",
                  !.timers = Append(@, [task |-> i, ms |-> SETTLE_WAIT_MS])]

\* loadAndPlayDemo up to its first await, with the values of render p
loadAndPlayDemo(st, p) ==
  LET i == Len(st.tasks) + 1
      t == [pc |-> "post", wsEmpty |-> p.workspaces.length = 0, aw |-> p.activeWorkspaceId,
            sess |-> p.activeSessionId, run |-> 0]
      started == [st EXCEPT !.tasks = Append(@, t)]
  IN IF t.wsEmpty THEN started ELSE afterWorkspace(started, i)

\* the effects of the render that follows a state change from `old`
Render(old, st) ==
  IF AutoPlayDeps(old) = AutoPlayDeps(st.page)
  THEN st
  ELSE LET p == st.page
           selected == [st EXCEPT !.page = selectFirst(p)]
       IN IF autoPlays(p) THEN loadAndPlayDemo(selected, p) ELSE selected

\* the state change st is rendered; the page's state becomes the result
Commit(st) ==
  LET r == Render(page, st)
  IN /\ Len(r.tasks) <= MaxTasks
     /\ page' = r.page
     /\ tasks' = r.tasks
     /\ timers' = r.timers

Now == [page |-> page, tasks |-> tasks, timers |-> timers]

\* sessionIdForSim
DefaultSession == None
SessionOf(sess) == IF sess = None THEN DefaultSession ELSE sess

Sent(r, kind) == [run |-> r, kind |-> kind, dir |-> "request", ok |-> TRUE,
                  sess |-> SessionOf(runs[r].sess)]
Received(r, kind, ok) == [run |-> r, kind |-> kind, dir |-> "response", ok |-> ok,
                          sess |-> SessionOf(runs[r].sess)]

\* useQuery ['project']: the project arrives
ProjectLoaded ==
  /\ ~page.project
  /\ Commit([Now EXCEPT !.page.project = TRUE])
  /\ UNCHANGED <<runs, backend, reqs, signaling, collab, workbench>>

\* useQuery ['workspaces']: the list arrives (first fetch, or the refetch
\* after invalidateQueries)
WorkspacesLoaded ==
  /\ ~page.workspaces.data \/ backend.refetch
  /\ backend' = [backend EXCEPT !.refetch = FALSE]
  /\ Commit([Now EXCEPT !.page.workspaces = [data |-> TRUE, length |-> backend.workspaces]])
  /\ UNCHANGED <<runs, reqs, signaling, collab, workbench>>

\* useQuery ['sessions', activeWorkspaceId]: the workspace's session arrives
SessionsLoaded ==
  /\ page.activeWorkspaceId # None
  /\ page.activeSessionId = None
  /\ Commit([Now EXCEPT !.page.activeSessionId = page.activeWorkspaceId])
  /\ UNCHANGED <<runs, backend, reqs, signaling, collab, workbench>>

\* POST /v1/workspaces answers task i: the new workspace becomes the active
\* one (its sessions are not loaded yet), the workspaces query is invalidated
\* and the task waits; on failure the task resets hasAutoPlayed and returns
WorkspacePosted(i, ok) ==
  /\ i \in DOMAIN tasks
  /\ tasks[i].pc = "post"
  /\ IF ok
     THEN /\ backend' = [workspaces |-> backend.workspaces + 1,
                         created |-> backend.created + 1, refetch |-> TRUE]
          /\ Commit([Now EXCEPT !.page.activeWorkspaceId = backend.workspaces + 1,
                                !.page.activeSessionId = None,
                                !.tasks[i].pc = "wait",
                                !.timers = Append(@, [task |-> i, ms |-> WORKSPACE_WAIT_MS])])
     ELSE /\ UNCHANGED backend
          /\ Commit([Now EXCEPT !.page.hasAutoPlayed = FALSE, !.tasks[i].pc = "failed"])
  /\ UNCHANGED <<runs, reqs, signaling, collab, workbench>>

\* may the k-th pending timer fire: no timer set before it is due earlier
Due(k) == \A j \in 1..(k - 1) : timers[j].ms > timers[k].ms

Without(seq, k) == [j \in 1..(Len(seq) - 1) |-> IF j < k THEN seq[j] ELSE seq[j + 1]]

\* the 500 ms wait after the workspace was created is over
WorkspaceWaited(k) ==
  /\ k \in DOMAIN timers
  /\ Due(k)
  /\ tasks[timers[k].task].pc = "wait"
  /\ Commit(afterWorkspace([Now EXCEPT !.timers = Without(timers, k)], timers[k].task))
  /\ UNCHANGED <<runs, backend, reqs, signaling, collab, workbench>>

\* handleRunSimulation up to its first await: status 'running', DELETE sent
handleRunSimulation(sess, i) ==
  LET r == Len(runs) + 1
  IN /\ runs' = Append(runs, [pc |-> "delete", sess |-> sess, task |-> i])
     /\ reqs' = Append(reqs, <<[run |-> r, kind |-> "DELETE", dir |-> "request", ok |-> TRUE,
                                sess |-> SessionOf(sess)]>>)

\* the 1000 ms wait is over: the task calls the handleRunSimulation of its render
SettleWaited(k) ==
  /\ k \in DOMAIN timers
  /\ Due(k)
  /\ tasks[timers[k].task].pc = "settle"
  /\ LET i == timers[k].task
     IN /\ handleRunSimulation(tasks[i].sess, i)
        /\ Commit([Now EXCEPT !.timers = Without(timers, k),
                              !.tasks[i].pc = "run", !.tasks[i].run = Len(runs) + 1,
                              !.page.status = "running"])
  /\ UNCHANGED <<backend, signaling, collab, workbench>>

\* the user presses Run
UserRun ==
  /\ Cardinality({r \in DOMAIN runs : runs[r].task = 0}) < MaxManualRuns
  /\ handleRunSimulation(page.activeSessionId, 0)
  /\ Commit([Now EXCEPT !.page.status = "running"])
  /\ UNCHANGED <<backend, signaling, collab, workbench>>

\* handleRunSimulation throws (after setting status 'error'): the auto-play
\* task that awaits it resets hasAutoPlayed
thrown(st, r) ==
  LET i == runs[r].task
      failed == [st EXCEPT !.page.status = "error"]
  IN IF i = 0 THEN failed
     ELSE [failed EXCEPT !.page.hasAutoPlayed = FALSE, !.tasks[i].pc = "failed"]

\* handleRunSimulation returns: the auto-play task that awaits it is done
returned(st, r, status) ==
  LET i == runs[r].task
      done == [st EXCEPT !.page.status = status]
  IN IF i = 0 THEN done ELSE [done EXCEPT !.tasks[i].pc = "played"]

\* the await of DELETE is over, with an answer or with an error that is caught
\* (recorded alike): create is sent
Deleted(r) ==
  /\ r \in DOMAIN runs
  /\ runs[r].pc = "delete"
  /\ runs' = [runs EXCEPT ![r].pc = "create"]
  /\ reqs' = [reqs EXCEPT ![r] = @ \o <<Received(r, "DELETE", TRUE), Sent(r, "create")>>]
  /\ UNCHANGED <<page, tasks, timers, backend, signaling, collab, workbench>>

\* what handleRunSimulation does with the answer to create
afterCreateAlways(ok) == "execute"
afterCreate(ok) == IF ok THEN "execute" ELSE "failed"

\* create was answered: execute is sent, or the run throws
Created(r, ok) ==
  /\ r \in DOMAIN runs
  /\ runs[r].pc = "create"
  /\ runs' = [runs EXCEPT ![r].pc = afterCreate(ok)]
  /\ IF afterCreate(ok) = "execute"
     THEN /\ reqs' = [reqs EXCEPT ![r] = @ \o <<Received(r, "create", ok), Sent(r, "execute")>>]
          /\ UNCHANGED <<page, tasks, timers>>
     ELSE /\ reqs' = [reqs EXCEPT ![r] = Append(@, Received(r, "create", ok))]
          /\ Commit(thrown(Now, r))
  /\ UNCHANGED <<backend, signaling, collab, workbench>>

\* what execute may answer: not ok, or a result with a status
ExecuteAnswers == {"failed", "success", "error"}

\* execute was answered: the result's status is stored, or the run throws
Executed(r, answer) ==
  /\ r \in DOMAIN runs
  /\ runs[r].pc = "execute"
  /\ reqs' = [reqs EXCEPT ![r] = Append(@, Received(r, "execute", answer # "failed"))]
  /\ runs' = [runs EXCEPT ![r].pc = IF answer = "failed" THEN "failed" ELSE "done"]
  /\ IF answer = "failed"
     THEN Commit(thrown(Now, r))
     ELSE Commit(returned(Now, r, answer))
  /\ UNCHANGED <<backend, signaling, collab, workbench>>

InitPage ==
  /\ SignalingStarted
  /\ CollabStarted
  /\ \E k \in Existing : PageOpened(k)
  /\ IdeStarted
  /\ ideLeft = 0
  /\ opsLeft = 0
  /\ sendsLeft = 0
  /\ editsLeft = 0
  /\ linksLeft = 0

\* The page with requests that may fail
NextPage ==
  \/ ProjectLoaded
  \/ WorkspacesLoaded
  \/ SessionsLoaded
  \/ \E i \in 1..MaxTasks, ok \in BOOLEAN : WorkspacePosted(i, ok)
  \/ \E k \in 1..MaxTasks : WorkspaceWaited(k)
  \/ \E k \in 1..MaxTasks : SettleWaited(k)
  \/ UserRun
  \/ \E r \in 1..(MaxTasks + MaxManualRuns) : Deleted(r)
  \/ \E r \in 1..(MaxTasks + MaxManualRuns), ok \in BOOLEAN : Created(r, ok)
  \/ \E r \in 1..(MaxTasks + MaxManualRuns), a \in ExecuteAnswers : Executed(r, a)

SpecPage == InitPage /\ [][NextPage]_vars

\* The page of a project that has a workspace: the demo is played, by the
\* effect and by the user, and any request may fail
InitRun ==
  /\ SignalingStarted
  /\ CollabStarted
  /\ PageOpened(1)
  /\ IdeStarted
  /\ ideLeft = 0
  /\ opsLeft = 0
  /\ sendsLeft = 0
  /\ editsLeft = 0
  /\ linksLeft = 0

\* a failed run is retried by the effect while fewer than MaxRetries attempts
\* have been made
RunCreated(r, ok) == Created(r, ok) /\ Len(tasks') <= MaxRetries
RunExecuted(r, a) == Executed(r, a) /\ Len(tasks') <= MaxRetries

NextRun ==
  \/ ProjectLoaded
  \/ WorkspacesLoaded
  \/ SessionsLoaded
  \/ \E k \in 1..MaxRetries : SettleWaited(k)
  \/ UserRun
  \/ \E r \in 1..(MaxRetries + MaxManualRuns) : Deleted(r)
  \/ \E r \in 1..(MaxRetries + MaxManualRuns), ok \in BOOLEAN : RunCreated(r, ok)
  \/ \E r \in 1..(MaxRetries + MaxManualRuns), a \in ExecuteAnswers : RunExecuted(r, a)

SpecRun == InitRun /\ [][NextRun]_vars

\* The page when every request succeeds and the user leaves the Run button alone
NextSmooth ==
  \/ ProjectLoaded
  \/ WorkspacesLoaded
  \/ SessionsLoaded
  \/ \E i \in 1..MaxTasks : WorkspacePosted(i, TRUE)
  \/ \E k \in 1..MaxTasks : WorkspaceWaited(k)
  \/ \E k \in 1..MaxTasks : SettleWaited(k)
  \/ \E r \in 1..MaxTasks : Deleted(r)
  \/ \E r \in 1..MaxTasks : Created(r, TRUE)
  \/ \E r \in 1..MaxTasks : Executed(r, "success")

SpecSmooth == InitPage /\ [][NextSmooth]_vars

----------------------------------------------------------------------------
\* frontend: the session IDE
\*
\* Time advances in steps of STEP_MS; a timeout fires when its time is up, before
\* time advances further.

\* clearTimeout that leaves the timeout pending
clearTimeoutNot(pending, id) == pending
\* clearTimeout
clearTimeout(pending, id) == {t \in pending : t.id # id}

\* an id no pending timeout has
NewTimer(pending) == CHOOSE id \in 1..(Cardinality(pending) + 1) : \A t \in pending : t.id # id

\* the auto-save effect after its dependencies changed: the cleanup of the
\* previous run, then the new run with the values of this render
autoSave(st) ==
  LET i == st.ide
      cleared == IF i.autoSaveTimerRef = None THEN st
                 ELSE [st EXCEPT !.timers = clearTimeout(@, i.autoSaveTimerRef),
                                 !.ide.autoSaveTimerRef = None]
      content == i.fileContents[i.selectedFile]
      id == NewTimer(cleared.timers)
  IN IF i.isLoadingFiles \/ i.selectedFile = NULL THEN cleared
     ELSE IF content = i.savedContentsRef[i.selectedFile] THEN cleared
     ELSE [cleared EXCEPT !.timers = @ \cup {[id |-> id, path |-> i.selectedFile,
                                              content |-> content,
                                              left |-> AUTO_SAVE_INTERVAL_MS]},
                          !.ide.autoSaveTimerRef = id]

\* the dependencies of the auto-save effect that can change
AutoSaveDeps(i) ==
  <<IF i.selectedFile = NULL THEN "" ELSE i.fileContents[i.selectedFile],
    i.selectedFile, i.isLoadingFiles>>

\* the cleanup of the effect on [selectedFile]: the provider is destroyed
cleanupCollaboration(st) ==
  IF st.ide.providerRef = None THEN st
  ELSE [st EXCEPT !.providers[st.ide.providerRef].live = FALSE, !.ide.providerRef = None]

\* the effects of the render that follows a change of the IDE's state
IdeRender(st) ==
  LET changed == AutoSaveDeps(ide) # AutoSaveDeps(st.ide)
      timed == IF changed THEN [st EXCEPT !.ide.quiet = 0] ELSE st
      saved == IF changed THEN autoSave(timed) ELSE timed
  IN IF ide.selectedFile # st.ide.selectedFile THEN cleanupCollaboration(saved) ELSE saved

IdeNow == [ide |-> ide, timers |-> autoSaveTimers, providers |-> providers]

IdeCommit(st) ==
  LET r == IdeRender(st)
  IN /\ ide' = r.ide
     /\ autoSaveTimers' = r.timers
     /\ providers' = r.providers

\* initialiseFiles: the workspace's files arrive, the default file is selected
FilesLoaded ==
  /\ ide.isLoadingFiles
  /\ IdeCommit([IdeNow EXCEPT !.ide.isLoadingFiles = FALSE,
                              !.ide.selectedFile = DefaultFile,
                              !.ide.fileContents = [f \in Files |-> Loaded],
                              !.ide.savedContentsRef = [f \in Files |-> Loaded]])
  /\ UNCHANGED <<uploads, sentWrites, ideLeft, signaling, collab, page, tasks, runs, timers,
                 backend, reqs>>

\* the editor calls onMount, once: with collaboration enabled and a file
\* selected a provider is created for the room of that file
handleEditorMount ==
  /\ ~ide.mounted
  /\ IF enableCollaboration /\ ide.selectedFile # NULL
     THEN IdeCommit([IdeNow EXCEPT !.ide.mounted = TRUE,
                                   !.ide.providerRef = Len(providers) + 1,
                                   !.providers = Append(@, [room |-> ide.selectedFile,
                                                            live |-> TRUE])])
     ELSE IdeCommit([IdeNow EXCEPT !.ide.mounted = TRUE])
  /\ UNCHANGED <<uploads, sentWrites, ideLeft, signaling, collab, page, tasks, runs, timers,
                 backend, reqs>>

\* the user types: the selected file's content becomes value
handleChange(value) ==
  /\ ~ide.isLoadingFiles
  /\ ide.mounted
  /\ ide.selectedFile # NULL
  /\ ideLeft > 0
  /\ ideLeft' = ideLeft - 1
  /\ IdeCommit([IdeNow EXCEPT !.ide.fileContents[ide.selectedFile] = value])
  /\ UNCHANGED <<uploads, sentWrites, signaling, collab, page, tasks, runs, timers,
                 backend, reqs>>

\* the user selects a tab
handleTabSelect(path) ==
  /\ ~ide.isLoadingFiles
  /\ ideLeft > 0
  /\ ideLeft' = ideLeft - 1
  /\ IdeCommit([IdeNow EXCEPT !.ide.selectedFile = path])
  /\ UNCHANGED <<uploads, sentWrites, signaling, collab, page, tasks, runs, timers,
                 backend, reqs>>

\* persistFile up to its await: nothing is sent for the content last saved
persistFile(path, content) ==
  IF content = ide.savedContentsRef[path] THEN uploads
  ELSE Append(uploads, [path |-> path, content |-> content])

\* the user saves the selected file
handleSave ==
  /\ ~ide.isLoadingFiles
  /\ ide.selectedFile # NULL
  /\ ideLeft > 0
  /\ ideLeft' = ideLeft - 1
  /\ uploads' = persistFile(ide.selectedFile, ide.fileContents[ide.selectedFile])
  /\ UNCHANGED <<ide, autoSaveTimers, sentWrites, providers, signaling, collab, page, tasks,
                 runs, timers, backend, reqs>>

\* an auto-save timeout fires: persistFile with the path and content of the
\* render that set it
AutoSaveFired(t) ==
  /\ t \in autoSaveTimers
  /\ t.left = 0
  /\ autoSaveTimers' = autoSaveTimers \ {t}
  /\ uploads' = persistFile(t.path, t.content)
  /\ sentWrites' = IF uploads' = uploads THEN sentWrites
                   ELSE sentWrites \cup {[path |-> t.path, content |-> t.content,
                                          saved |-> ide.savedContentsRef[t.path],
                                          current |-> ide.fileContents[t.path],
                                          selected |-> ide.selectedFile,
                                          quiet |-> ide.quiet]}
  /\ UNCHANGED <<ide, providers, ideLeft, signaling, collab, page, tasks, runs, timers,
                 backend, reqs>>

\* upsertWorkspaceFile answers the k-th call under way: on success the content
\* becomes the file's saved content
Upserted(k, ok) ==
  /\ k \in DOMAIN uploads
  /\ uploads' = Without(uploads, k)
  /\ ide' = IF ok THEN [ide EXCEPT !.savedContentsRef[uploads[k].path] = uploads[k].content]
            ELSE ide
  /\ UNCHANGED <<autoSaveTimers, sentWrites, providers, ideLeft, signaling, collab, page,
                 tasks, runs, timers, backend, reqs>>

\* STEP_MS pass while no timeout is due
Tick ==
  /\ autoSaveTimers # {}
  /\ \A t \in autoSaveTimers : t.left > 0
  /\ autoSaveTimers' = {[t EXCEPT !.left = @ - STEP_MS] : t \in autoSaveTimers}
  /\ ide' = [ide EXCEPT !.quiet = IF @ >= AUTO_SAVE_INTERVAL_MS THEN @ ELSE @ + STEP_MS]
  /\ UNCHANGED <<uploads, sentWrites, providers, ideLeft, signaling, collab, page, tasks,
                 runs, timers, backend, reqs>>

InitIde ==
  /\ SignalingStarted
  /\ CollabStarted
  /\ PageStarted
  /\ IdeStarted
  /\ ideLeft = MaxIdeOps
  /\ opsLeft = 0
  /\ sendsLeft = 0
  /\ editsLeft = 0
  /\ linksLeft = 0

NextIde ==
  \/ FilesLoaded
  \/ handleEditorMount
  \/ \E v \in Texts : handleChange(v)
  \/ \E f \in Files : handleTabSelect(f)
  \/ handleSave
  \/ \E t \in autoSaveTimers : AutoSaveFired(t)
  \/ \E k \in 1..MaxIdeOps, ok \in BOOLEAN : Upserted(k, ok)
  \/ Tick

SpecIde == InitIde /\ [][NextIde]_vars

\* the editor is mounted once the page is shown
FairIde == SpecIde /\ WF_vars(handleEditorMount) /\ WF_vars(FilesLoaded)

----------------------------------------------------------------------------
\* Properties

LocalRoomsOf(c) == {r \in DOMAIN rooms[Home[c]] : c \in rooms[Home[c]][r]}
StoreRoomsOf(c) == {r \in Rooms : c \in redis.members[r]}

\* C2: a client whose handlers have all completed is in at most one local room
\* set of its node and in at most one member set of the store.
C2_AtMostOneRoom ==
  \A c \in ClientIds :
    Quiet(c) => /\ Cardinality(LocalRoomsOf(c)) <= 1
                /\ Cardinality(StoreRoomsOf(c)) <= 1

\* C3: once a client's socket has closed and its handlers have finished, its id
\* is in no member set and its client hash is gone, so no participant list
\* names it.
C3_DisconnectCleansUp ==
  \A c \in ClientIds :
    (clients[c].conn = "closed" /\ Quiet(c)) =>
       /\ StoreRoomsOf(c) = {}
       /\ redis.hashes[c].id = NULL
       /\ \A r \in Rooms :
            \A q \in listParticipants(redis, redis.members[r]) : q.id # c

MsgIds == 1..Len(msgs)

\* positions in c's inbox of the forwarded copies of message i, and of the
\* errors sent about it
Copies(c, i) == {k \in 1..Len(inbox[c]) : inbox[c][k].type # "error" /\ inbox[c][k].id = i}
Errors(c, i) == {k \in 1..Len(inbox[c]) : inbox[c][k].type = "error" /\ inbox[c][k].id = i}
InRelay(i) == \E n \in Nodes : \E k \in 1..Len(relayQ[n]) : relayQ[n][k].message.id = i

\* C1: an offer sent across nodes between two clients that have joined the same
\* room reaches the target as {type: 'offer', fromId: sender, offer: payload},
\* as long as the target stays connected.
C1Sent(i) ==
  /\ i <= Len(msgs)
  /\ msgs[i].type = "offer"
  /\ msgs[i].to \in ClientIds
  /\ Home[msgs[i].to] # Home[msgs[i].from]
  /\ msgs[i].sameRoom

C1Got(i) ==
  /\ i <= Len(msgs)
  /\ msgs[i].to \in ClientIds
  /\ \/ clients[msgs[i].to].conn # "open"
     \/ \E k \in 1..Len(inbox[msgs[i].to]) :
          inbox[msgs[i].to][k] = [type |-> "offer", fromId |-> msgs[i].from,
                                  body |-> msgs[i].payload, id |-> i]

C1_CrossNodeDelivery == \A i \in 1..MaxCrossSends : C1Sent(i) ~> C1Got(i)

C1_Witness ==
  \E i \in MsgIds : C1Sent(i) /\ i \in published /\ Copies(msgs[i].to, i) # {}

\* C4: once the heartbeat TTL has run out after a node stopped, none of the
\* clients that were connected to it has a client hash or a room membership.
C4_CrashRecoveryByTtl ==
  \A n \in Nodes : expired[n] =>
    \A c \in ClientIds : Home[c] = n =>
       /\ redis.hashes[c].id = NULL
       /\ StoreRoomsOf(c) = {}

\* C5: a message whose target is neither on the sender's node nor in the store
\* gets the sender one error naming the target (offer, answer) or nothing
\* (ice-candidate); nobody else receives anything and nothing is published.
C5_UnknownTarget ==
  \A i \in MsgIds : (~msgs[i].local /\ msgs[i].lookup = "absent") =>
    LET from == msgs[i].from IN
    /\ \A k \in Errors(from, i) : inbox[from][k].body = msgs[i].to
    /\ IF msgs[i].type \in {"offer", "answer"}
       THEN /\ Cardinality(Errors(from, i)) <= 1
            /\ clients[from].conn = "open" => Cardinality(Errors(from, i)) = 1
       ELSE /\ msgs[i].type = "ice-candidate"
            /\ Errors(from, i) = {}
    /\ \A c \in ClientIds : Copies(c, i) = {} /\ (c # from => Errors(c, i) = {})
    /\ i \notin published
    /\ ~InRelay(i)

C5_Witness ==
  \E i \in MsgIds :
    /\ ~msgs[i].local /\ msgs[i].lookup = "absent"
    /\ msgs[i].type = "answer"
    /\ Cardinality(Errors(msgs[i].from, i)) = 1

\* C6: every offer or answer that was not delivered to its target has been
\* answered by an error to its sender.
Settled(i) == (msgs[i].local \/ msgs[i].lookup # "none") /\ ~InRelay(i)

C6_FailuresReported ==
  \A i \in MsgIds :
    ( /\ msgs[i].type \in {"offer", "answer"}
      /\ Settled(i)
      /\ \A c \in ClientIds : Copies(c, i) = {}
      /\ clients[msgs[i].from].conn = "open" )
    => Errors(msgs[i].from, i) # {}

\* C7: a signaling message reaches the client named by its targetId at most
\* once and reaches no other client, every node having received the envelope.
C7_AtMostOnce ==
  \A i \in MsgIds : \A c \in ClientIds :
    /\ Cardinality(Copies(c, i)) <= 1
    /\ Copies(c, i) # {} => c = msgs[i].to

C7_Witness ==
  \E i \in MsgIds :
    /\ i \in published
    /\ ~InRelay(i)
    /\ Cardinality(Copies(msgs[i].to, i)) = 1

\* C8: the messages of one sender arrive at a target in the order they were
\* sent, on the same node and across nodes, whatever their types.
C8_PerPairFifo ==
  \A c \in ClientIds : \A k1, k2 \in 1..Len(inbox[c]) :
    ( /\ k1 < k2
      /\ inbox[c][k1].type # "error" /\ inbox[c][k2].type # "error"
      /\ inbox[c][k1].fromId = inbox[c][k2].fromId )
    => inbox[c][k1].id < inbox[c][k2].id

C8_Witness ==
  \E c \in ClientIds : \E k1, k2 \in 1..Len(inbox[c]) :
    /\ k1 < k2
    /\ inbox[c][k1].id \in published /\ inbox[c][k2].id \in published
    /\ inbox[c][k1].type # inbox[c][k2].type
    /\ inbox[c][k1].fromId = inbox[c][k2].fromId

\* C9: a message to a connected target is routed to it wherever the target is
\* connected: it is never treated as a message to a missing client.
C9_PlacementTransparent ==
  \A i \in MsgIds : (msgs[i].lookup # "none" /\ msgs[i].tconn) => i \in published

\* C10: once a node's heartbeat record has expired, no message addressed to
\* that node is published on the relay channel.
PublishedTo(n) ==
  \E m \in Nodes :
    /\ Len(relayQ'[m]) > Len(relayQ[m])
    /\ relayQ'[m][Len(relayQ'[m])].targetServerId = n

C10_StaleNodesNotRouted ==
  [][\A n \in Nodes : expired[n] => ~PublishedTo(n)]_vars

\* C11: a join without a roomId or without a role (missing or empty) gets its
\* sender one error and nothing else happens: client records, local room sets,
\* the store, the suspended handlers and everybody else's messages are as before.
C11_InvalidJoinNoEffect ==
  [][\A c \in ClientIds, r \in RoomInputs, role \in RoleInputs :
       ((r \in {NULL, ""} \/ role \in {NULL, ""}) /\ RecvJoin(c, r, role))
       => /\ UNCHANGED <<clients, rooms, redis, redisQ, inbox>>
          /\ notes' = [notes EXCEPT ![c] = Append(@, JoinRejected)]]_vars

C11_Witness ==
  \E c, d \in ClientIds :
    /\ c # d
    /\ clients[c].roomId \in DOMAIN rooms[Home[c]]
    /\ {c, d} \subseteq rooms[Home[c]][clients[c].roomId]
    /\ \E k1, k2 \in 1..Len(notes[c]) :
          k1 < k2 /\ notes[c][k1].type = "joined" /\ notes[c][k2] = JoinRejected

\* The clients whose hash names room r, and the list the claim expects for r
RegisteredIn(r) ==
  {c \in ClientIds : redis.hashes[c].id # NULL /\ redis.hashes[c].roomId = r}
ExpectedParticipants(r) ==
  {[id |-> c, role |-> redis.hashes[c].role] : c \in RegisteredIn(r)}

\* C12: listParticipants(room) is exactly the clients registered in the room,
\* each with its role, and every 'joined' reply lists the joiner itself.
C12_ParticipantList ==
  /\ \A r \in Rooms : listParticipants(redis, redis.members[r]) = ExpectedParticipants(r)
  /\ \A c \in ClientIds : \A k \in 1..Len(notes[c]) :
        notes[c][k].type = "joined" =>
           \E q \in notes[c][k].participants : q.id = c

\* no StateStore command is in flight on any node
Idle == \A n \in Nodes : redisQ[n] = <<>>

\* C13: with no register or remove in flight, a room is in the index exactly
\* when its member set is non-empty and no node keeps an empty local room set;
\* registering a client in an empty room and removing it again leaves no key.
C13_EmptyRoomsCollected ==
  Idle =>
    /\ \A r \in Rooms : r \in redis.index <=> redis.members[r] # {}
    /\ \A n \in Nodes : \A r \in DOMAIN rooms[n] : rooms[n][r] # {}
    /\ \A c \in ClientIds, r \in Rooms, role \in JoinRoles :
          (redis.members[r] = {} /\ redis.hashes[c].id = NULL)
          => removeClient(registerClient(redis, Home[c], c, r, role), c, r) = redis

C13_Witness ==
  /\ Idle
  /\ redis.index = {}
  /\ \A r \in Rooms : redis.members[r] = {}
  /\ \E c \in ClientIds :
        /\ clients[c].conn = "open" /\ clients[c].roomId = NULL
        /\ redis.hashes[c].id = NULL
        /\ \E k \in 1..Len(notes[c]) :
              notes[c][k].type = "joined" /\ notes[c][k].participants # {}

\* C14: whenever a client hash names room r, the client is in r's member set
\* and r is in the room index, however the registerClient and removeClient
\* calls of different nodes interleave.
C14_NoTornRegistry ==
  \A c \in ClientIds : \A r \in Rooms :
    (redis.hashes[c].id # NULL /\ redis.hashes[c].roomId = r)
    => (c \in redis.members[r] /\ r \in redis.index)

\* C15: a value written to the document's key contains every update of the
\* value it replaces, whichever node writes.
C15_StoreAbsorbsUpdates ==
  [][Content(docStore) \subseteq Content(docStore')]_vars

\* no command of any node's persistence connection is in flight
PersistIdle == \A n \in CollabNodes : persistQ[n] = <<>>
OpenEditors == {e \in Editors : editors[e].conn = "open"}

\* C16: once the editors have stopped and nothing is in flight, all connected
\* editors see the same document and the stored value is the merge of their
\* updates, whichever node each is connected to.
C16_Convergence ==
  (PersistIdle /\ Cardinality(OpenEditors) >= 2) =>
    /\ \A e1, e2 \in OpenEditors : editors[e1].ydoc = editors[e2].ydoc
    /\ Content(docStore) = UNION {editors[e].ydoc : e \in OpenEditors}

\* C17: once a node's document is bound and the node's persistence commands
\* have been answered, every update of the document is in the stored value.
C17_UpdatesPersisted ==
  \A n \in CollabNodes :
    (docs[n].inst # 0 /\ persistQ[n] = <<>>) => docs[n].ydoc \subseteq Content(docStore)

Changes == 1..Len(pubCount)

\* C19: every awareness change is published on the channel exactly once: the
\* node of the editor publishes it, and no node publishes a change again that
\* it applied from the channel.
C19_NoAwarenessEcho == \A c \in Changes : pubCount[c] = 1

\* C20: a node does not apply a channel message it published itself.
C20_OwnMessagesIgnored == \A a \in applied : a.by # a.node
\* the other node
Peer(n) == CHOOSE m \in CollabNodes : m # n

\* the clocks an awareness state can reach
Clocks == 1..(MaxAwChanges + MaxAwLinks)

\* node n published editor e's state of clock k while its peer, serving the
\* document, was subscribed: the message is in the peer's subscription
InFlight(n, e, k) ==
  /\ docs[Peer(n)].inst # 0
  /\ \E i \in 1..Len(awQ[Peer(n)]) :
        /\ awQ[Peer(n)][i].by = n
        /\ [client |-> e, clock |-> k, on |-> TRUE] \in fromBase64(awQ[Peer(n)][i].payload)

\* the peer's awareness of the document has that state or a later one of e, or
\* the peer has closed the document
Arrived(n, e, k) == awareness[Peer(n)][e].clock >= k \/ docs[Peer(n)].inst = 0

\* C21: when both nodes serve the document with their subscriptions established
\* and an editor of one node changes its awareness state, the other node's
\* awareness of the document eventually holds that state.
C21_AwarenessPropagates ==
  \A e \in Remote : \A k \in Clocks :
    InFlight(EditorHome[e], e, k) ~> Arrived(EditorHome[e], e, k)
\* the editors connected to node n
LocalEditors(n) == {e \in Editors : EditorHome[e] = n /\ editors[e].conn = "open"}

\* node n holds a subscription to the document's channel, or a binding for the
\* document, while none of its clients has the document open
Lingering(n) == LocalEditors(n) = {} /\ (bridge[n].sub = "on" \/ bridge[n].inst # 0)

\* C22: once the last local client of the document has disconnected, the node
\* drops its binding and its subscription to the document's awareness channel
\* (unless a client opens the document again first).
C22_SubscriptionReleased ==
  \A n \in CollabNodes : Lingering(n) ~> ~Lingering(n)
\* the handleRunSimulation calls the auto-play effect has made
AutoRuns == {r \in DOMAIN runs : runs[r].task # 0}

\* C23: while no attempt fails, the auto-play effect starts the demo simulation
\* at most once and creates at most one default workspace.
C23_AutoPlayOnce == Cardinality(AutoRuns) <= 1 /\ backend.created <= 1
\* the requests and responses of run r up to position j
Before(r, j) == {reqs[r][i] : i \in 1..(j - 1)}

\* was a response to the run's request of that kind received before position j
Answered(r, j, kind, oks) ==
  \E x \in Before(r, j) : x.kind = kind /\ x.dir = "response" /\ x.ok \in oks

\* is handleRunSimulation still running somewhere
Running == \E r \in DOMAIN runs : runs[r].pc \in {"delete", "create", "execute"}

\* C24: every run sends DELETE first and create only after DELETE was answered,
\* for the same session; it sends execute only after create succeeded; when no
\* run is under way the status is 'success' or 'error', never 'running'.
C24_RunOrder ==
  /\ \A r \in DOMAIN runs :
       /\ reqs[r][1].kind = "DELETE" /\ reqs[r][1].dir = "request"
       /\ \A j \in DOMAIN reqs[r] :
            /\ reqs[r][j].sess = reqs[r][1].sess
            /\ (reqs[r][j].kind = "create" /\ reqs[r][j].dir = "request")
                 => Answered(r, j, "DELETE", {TRUE})
            /\ (reqs[r][j].kind = "execute" /\ reqs[r][j].dir = "request")
                 => Answered(r, j, "create", {TRUE})
  /\ (runs # <<>> /\ ~Running) => page.status \in {"success", "error"}

\* a create failed in one run while another run went on to execute
C24_Witness ==
  /\ ~Running
  /\ \E r \in DOMAIN runs : runs[r].pc = "failed" /\ Len(reqs[r]) = 4
  /\ \E r \in DOMAIN runs : runs[r].pc = "done"
\* the auto-play attempts that failed (the workspace could not be created or
\* handleRunSimulation threw), that gave up, and that played the demo
Failed == {i \in DOMAIN tasks : tasks[i].pc = "failed"}
Skipped == {i \in DOMAIN tasks : tasks[i].pc = "skipped"}
Played == {i \in DOMAIN tasks : tasks[i].pc = "played"}

\* C25: the step in which an auto-play attempt fails leaves hasAutoPlayed
\* false, or true only because the effect has already started the next
\* attempt; once an attempt has played the demo, hasAutoPlayed is true and no
\* attempt sets it back to false.
C25_FailureAllowsRetry ==
  [][ /\ (Failed' # Failed => (~page'.hasAutoPlayed \/ Len(tasks') > Len(tasks)))
      /\ (Played # {} => /\ page'.hasAutoPlayed
                         /\ Failed' = Failed
                         /\ Skipped' = Skipped) ]_vars
\* C26: an auto-save write is sent only for the selected file, with the content
\* the file has, when that content differs from the last saved content and has
\* not changed (nor the selection) for AUTO_SAVE_INTERVAL_MS; at most one
\* auto-save timeout is pending.
C26_AutoSaveDebounced ==
  /\ Cardinality(autoSaveTimers) <= 1
  /\ \A w \in sentWrites :
       /\ w.content # w.saved
       /\ w.path = w.selected
       /\ w.content = w.current
       /\ w.quiet >= AUTO_SAVE_INTERVAL_MS

\* a write went out although the user had edited and switched files before
C26_Witness ==
  /\ sentWrites # {}
  /\ ideLeft <= MaxIdeOps - 3
  /\ \E f \in Files : ide.fileContents[f] # Loaded /\ f # ide.selectedFile
\* the editor has a live provider connected to the room of file f
InRoom(f) ==
  /\ ide.providerRef # None
  /\ providers[ide.providerRef].live
  /\ providers[ide.providerRef].room = f

\* C27: with collaboration enabled, once file f is selected in the mounted
\* editor, the editor gets a live provider for the room of f (unless another
\* file is selected first), and no provider of another room stays live.
C27_PerFileRooms ==
  \A f \in Files :
    (enableCollaboration /\ ide.mounted /\ ide.selectedFile = f)
      ~> (\/ ide.selectedFile # f
          \/ InRoom(f) /\ \A k \in DOMAIN providers : providers[k].live => providers[k].room = f)

----------------------------------------------------------------------------
\* Home-node metadata (stateStore.js)

\* node n's StateStore connection has just executed the command of a handler
\* that awaited it at `pc`
Replied(n, pc) ==
  /\ nodeUp[n]
  /\ redisQ[n] # <<>>
  /\ Head(redisQ[n]).pc = pc
  /\ Len(redisQ'[n]) <= Len(redisQ[n])
  /\ redisQ'[n] # redisQ[n]

\* C28: right after node n registers a client, getClient returns the id, room
\* and role given and serverId = n; right after a client is removed, and for an
\* id that never registered, getClient returns null; every relayed message is
\* addressed to the node that registered its target.
C28_HomeNodeMetadata ==
  [][/\ \A n \in Nodes : Replied(n, "reg") =>
          LET t == Head(redisQ[n])
          IN getClient(redis', t.c) =
               [id |-> t.c, roomId |-> t.roomId, role |-> t.role, serverId |-> n]
     /\ \A n \in Nodes : Replied(n, "rm_multi") =>
          getClient(redis', Head(redisQ[n]).c) = NoHash
     /\ getClient(redis', Nobody) = NoHash
     /\ \A c \in ClientIds : clients'[c].conn = "new" => getClient(redis', c) = NoHash
     /\ \A n \in Nodes : \A k \in DOMAIN relayQ'[n] :
          relayQ'[n][k].targetServerId = Home[relayQ'[n][k].targetId]]_vars

\* a message was relayed to a client that a node registered, and a removed
\* client's metadata is gone
C28_Witness ==
  \E c \in ClientIds :
    /\ \E n \in Nodes : \E k \in DOMAIN relayQ[n] :
          /\ relayQ[n][k].targetId = c
          /\ relayQ[n][k].targetServerId = Home[c]
          /\ relayQ[n][k].originServerId # Home[c]
    /\ clients[c].conn = "closed"
    /\ getClient(redis, c) = NoHash

----------------------------------------------------------------------------
\* Join notification (server.js handleJoin, broadcast)

\* The clients of one node join and leave rooms without waiting for anything
InitNotify ==
  /\ Started
  /\ opsLeft = MaxNotifyOps
  /\ sendsLeft = 0
  /\ editsLeft = 0
  /\ linksLeft = 0

NextNotify ==
  \/ \E c \in Locals : Connect(c)
  \/ \E c \in Locals, r \in Rooms, role \in Roles : RecvJoin(c, r, role)
  \/ \E c \in Locals : RecvLeave(c)
  \/ \E n \in Nodes : RedisReply(n)

SpecNotify == InitNotify /\ [][NextNotify]_vars

\* node n's handleJoin has just run from `await stateStore.listParticipants`
\* to its end
JoinDone(n) ==
  \/ Replied(n, "list_hgetall")
  \/ Replied(n, "list_smembers") /\ Len(redisQ'[n]) < Len(redisQ[n])

\* d is in room r on node n and has no request under way
Member(d, n, r) ==
  /\ Home[d] = n
  /\ clients[d].conn = "open"
  /\ clients[d].roomId = r
  /\ Quiet(d)

\* d has no request under way and its room is not r
Outside(d, r) == Quiet(d) /\ clients[d].roomId # r

\* C29: when a join of room r by c (its socket open) completes on node n, every
\* other client in room r on n is sent exactly one peer-joined with c's id and
\* role, c is sent its 'joined' reply and no peer-joined, and no client outside
\* room r is sent anything.
C29_JoinNotification ==
  [][\A n \in Nodes : (JoinDone(n) /\ clients[Head(redisQ[n]).c].conn = "open") =>
        LET t == Head(redisQ[n])
        IN /\ \A d \in ClientIds \ {t.c} : Member(d, n, t.roomId) =>
                 notes'[d] = Append(notes[d], PeerJoined(t.c, t.role))
           /\ Len(notes'[t.c]) = Len(notes[t.c]) + 1
           /\ LET m == notes'[t.c][Len(notes'[t.c])]
              IN m.type = "joined" /\ m.roomId = t.roomId /\ m.role = t.role
           /\ \A d \in ClientIds \ {t.c} : Outside(d, t.roomId) => notes'[d] = notes[d]]_vars

----------------------------------------------------------------------------
\* Room scope of signaling (server.js findClientById, relayOrSend)

\* C30: an offer, answer or ice-candidate has reached its target only if the
\* sender and the target were members of the same room when it was sent; none
\* from a sender that had joined no room, or to a target of another room, has.
C30_RoomScoped ==
  \A i \in MsgIds :
    (msgs[i].to \in ClientIds /\ Copies(msgs[i].to, i) # {}) => msgs[i].sameRoom

----------------------------------------------------------------------------
\* Frames no handler exists for (server.js ws.on('message'), handleMessage)

\* A frame: is it JSON text, is it the JSON text `null`, and the `type` of the
\* parsed value (NULL: it has none)
Frame(json, isNull, type) == [json |-> json, isNull |-> isNull, type |-> type]

\* the cases of handleMessage's switch
KnownTypes == {"join", "leave"} \cup SigTypes

\* not JSON, `null`, a value without a type, and types the switch does not know
BadFrames ==
  {Frame(FALSE, FALSE, NULL), Frame(TRUE, TRUE, NULL), Frame(TRUE, FALSE, NULL),
   Frame(TRUE, FALSE, "ping"), Frame(TRUE, FALSE, "JOIN")}

\* JSON.parse throws on text that is not JSON; handleMessage throws on
\* `message.type` when the parsed value is null
throws(f) == ~f.json \/ f.isNull

\* the catch of ws.on('message')
InvalidJson == [Note("error") EXCEPT !.error = "Invalid JSON message"]

\* the default case of handleMessage
UnknownType(type) ==
  [Note("error") EXCEPT
     !.error = "Unknown message type: " \o (IF type = NULL THEN "undefined" ELSE type)]

\* ws.on('message') with a frame that reaches the catch or the default case
RecvOther(c, f) ==
  /\ clients[c].conn = "open"
  /\ opsLeft > 0
  /\ opsLeft' = opsLeft - 1
  /\ f.type \notin KnownTypes
  /\ notes' = send(notes, c, IF throws(f) THEN InvalidJson ELSE UnknownType(f.type))
  /\ frames' = Append(frames, [c |-> c, frame |-> f])
  /\ UNCHANGED <<nodeUp, expired, clients, rooms, redis, redisQ, relayQ, msgs, inbox, published, sendsLeft, collab, frontend>>

\* The clients of one node join rooms and send frames of every shape
InitInput ==
  /\ Started
  /\ opsLeft = MaxInputOps
  /\ sendsLeft = 0
  /\ editsLeft = 0
  /\ linksLeft = 0

NextInput ==
  \/ \E c \in Locals : Connect(c)
  \/ \E c \in Locals, r \in Rooms, role \in Roles : RecvJoin(c, r, role)
  \/ \E c \in Locals, f \in BadFrames : RecvOther(c, f)
  \/ \E n \in Nodes : RedisReply(n)

SpecInput == InitInput /\ [][NextInput]_vars

\* C31: a frame that is not JSON, or whose type is none of join, offer, answer,
\* ice-candidate, leave, gets its sender exactly one error reply; no other
\* client is sent anything and no client record, room set, store key or
\* suspended handler changes.
C31_BadFrameRejected ==
  [][frames' # frames =>
       LET e == frames'[Len(frames')]
       IN /\ Len(notes'[e.c]) = Len(notes[e.c]) + 1
          /\ SubSeq(notes'[e.c], 1, Len(notes[e.c])) = notes[e.c]
          /\ notes'[e.c][Len(notes'[e.c])].type = "error"
          /\ \A d \in ClientIds \ {e.c} : notes'[d] = notes[d]
          /\ UNCHANGED <<clients, rooms, redis, redisQ, relayQ, inbox, published>>]_vars

\* a client that shares a room with another one was answered every kind of
\* rejection
C31_Witness ==
  /\ \E r \in Rooms : \A c \in Locals : Joined(c) /\ clients[c].roomId = r
  /\ \E k \in DOMAIN frames :
        /\ ~frames[k].frame.json
        /\ notes[frames[k].c][Len(notes[frames[k].c])] = InvalidJson

----------------------------------------------------------------------------
\* Store failures (server.js ws.on('message') catch, ws.on('close') catch)

\* The command node n's oldest suspended handler awaits is rejected: the handler
\* throws at its await and runs no further.  ws.on('message') catches and
\* answers the sender; ws.on('close') catches and logs
RedisFails(n) ==
  /\ nodeUp[n]
  /\ redisQ[n] # <<>>
  /\ LET t == Head(redisQ[n])
     IN /\ redisQ' = [redisQ EXCEPT ![n] = Tail(@)]
        /\ notes' = IF t.kind = "disc" THEN notes ELSE send(notes, t.c, InvalidJson)
  /\ UNCHANGED <<nodeUp, expired, clients, rooms, redis, relayQ, msgs, inbox, published, opsLeft, sendsLeft, frames, collab, frontend>>

\* The clients of one node join, leave and disconnect while store commands
\* may fail
InitOutage ==
  /\ Started
  /\ opsLeft = MaxOutageOps
  /\ sendsLeft = 0
  /\ editsLeft = 0
  /\ linksLeft = 0

NextOutage ==
  \/ \E c \in Locals : Connect(c)
  \/ \E c \in Locals, r \in Rooms, role \in Roles : RecvJoin(c, r, role)
  \/ \E c \in Locals : RecvLeave(c)
  \/ \E c \in Locals : Close(c)
  \/ \E n \in Nodes : RedisReply(n)
  \/ \E n \in Nodes : RedisFails(n)

SpecOutage == InitOutage /\ [][NextOutage]_vars

\* C32: whenever no handler is in flight on node n, a client of n is in n's
\* local set of room r exactly when the store's member set of r holds its id
\* and its client hash records roomId = r and serverId = n, also after a store
\* command of a join or a leave has failed.
C32_LocalMatchesStore ==
  \A n \in Nodes : redisQ[n] = <<>> =>
    \A c \in ClientIds : Home[c] = n =>
      \A r \in Rooms :
        (r \in DOMAIN rooms[n] /\ c \in rooms[n][r])
          <=> (/\ c \in redis.members[r]
               /\ redis.hashes[c].roomId = r
               /\ redis.hashes[c].serverId = n)

----------------------------------------------------------------------------
\* peer-left (server.js handleLeave, handleDisconnect, handleJoin)

\* this step takes c out of its node's local set of room r
Departs(c, r) ==
  /\ r \in DOMAIN rooms[Home[c]]
  /\ c \in rooms[Home[c]][r]
  /\ r \in DOMAIN rooms'[Home[c]] => c \notin rooms'[Home[c]][r]

\* this step sends d one more message, a peer-left naming c
Told(d, c) ==
  /\ Len(notes'[d]) = Len(notes[d]) + 1
  /\ notes'[d][Len(notes'[d])] = PeerLeft(c)

\* C33: each time a client leaves a room (leave, join of another room,
\* disconnect), every client remaining in the room on the same node is sent
\* exactly one peer-left with the leaver's id: one at every departure, and none
\* that is not a departure, whatever follows while the handler awaits the store.
C33_PeerLeftOnce ==
  [][\A c \in ClientIds : \A d \in ClientIds \ {c} :
       Home[d] = Home[c] =>
         /\ \A r \in Rooms :
               (Departs(c, r) /\ d \in rooms[Home[c]][r] /\ clients[d].conn = "open")
                  => Told(d, c)
         /\ Told(d, c) => \E r \in Rooms : Departs(c, r) /\ d \in rooms[Home[c]][r]]_vars


----------------------------------------------------------------------------
\* Leave outside a room (server.js handleLeave, stateStore.js removeClient)

\* C34: a leave message or a disconnect from a client whose roomId is null sends
\* nothing to anyone and leaves the room sets, the store, the suspended store
\* commands and the relay unchanged.
C34_LeaveOutsideRoom ==
  [][\A c \in ClientIds :
       (clients[c].roomId = NULL /\ (RecvLeave(c) \/ Close(c)))
          => UNCHANGED <<rooms, redis, redisQ, relayQ, notes, inbox>>]_vars

\* every request was sent, one client joined once and stayed, the other is
\* connected and never joined: the remaining requests were leaves outside a room
C34_Witness ==
  /\ opsLeft = 0
  /\ \A n \in Nodes : redisQ[n] = <<>>
  /\ clients["a1"].conn = "open"
  /\ notes["a1"] = <<Welcome("a1")>>
  /\ Joined("b1")
  /\ Len(notes["b1"]) = 2

----------------------------------------------------------------------------
\* The awareness watch binds (redisAwareness.js watch)

\* C35: once watch has returned for a node's open document and the channel is
\* subscribed, the handler that publishes and the entry handleMessage applies
\* to are those of the awareness of that document, also when the document was
\* closed and opened again.
C35_WatchBindsGiven ==
  \A n \in CollabNodes :
    (docs[n].inst # 0 /\ bridge[n].sub = "on") => bridge[n].inst = docs[n].inst

----------------------------------------------------------------------------
\* Auto-play while the simulation service is down (Workspace.tsx)

\* The page when no run gets through: create or execute fails every time, and
\* the user leaves the Run button alone
NextDown ==
  \/ ProjectLoaded
  \/ WorkspacesLoaded
  \/ SessionsLoaded
  \/ \E i \in 1..MaxTasks, ok \in BOOLEAN : WorkspacePosted(i, ok)
  \/ \E k \in 1..MaxTasks : WorkspaceWaited(k)
  \/ \E k \in 1..MaxTasks : SettleWaited(k)
  \/ \E r \in 1..MaxTasks : Deleted(r)
  \/ \E r \in 1..MaxTasks, ok \in BOOLEAN : Created(r, ok)
  \/ \E r \in 1..MaxTasks : Executed(r, "failed")

SpecDown == InitPage /\ [][NextDown]_vars

\* the auto-play attempts whose handleRunSimulation threw
RunFailed == {i \in DOMAIN tasks : tasks[i].pc = "failed" /\ tasks[i].run # 0}

\* C36: while every create or execute request fails, the page makes a bounded
\* number of auto-play attempts: the failed runs are not each followed by a
\* further attempt, up to the MaxTasks attempts the effect is followed for.
C36_AttemptsBounded == Cardinality(RunFailed) + 1 < MaxTasks

----------------------------------------------------------------------------
\* Unsaved edits of a file that is no longer selected (SessionIDE auto-save)

\* The IDE while the file service answers every write with success
NextSaving ==
  \/ FilesLoaded
  \/ handleEditorMount
  \/ \E v \in Texts : handleChange(v)
  \/ \E f \in Files : handleTabSelect(f)
  \/ handleSave
  \/ \E t \in autoSaveTimers : AutoSaveFired(t)
  \/ \E k \in 1..MaxIdeOps : Upserted(k, TRUE)
  \/ Tick

SpecSaving == InitIde /\ [][NextSaving]_vars

\* time passes, timeouts that are due fire, every write is answered, the files
\* load and the editor mounts
FairSaving ==
  /\ SpecSaving
  /\ WF_vars(Tick)
  /\ WF_vars(\E t \in autoSaveTimers : AutoSaveFired(t))
  /\ WF_vars(\E k \in 1..MaxIdeOps : Upserted(k, TRUE))
  /\ WF_vars(FilesLoaded)
  /\ WF_vars(handleEditorMount)

\* f's content is not the content last saved for it
Dirty(f) == ~ide.isLoadingFiles /\ ide.fileContents[f] # ide.savedContentsRef[f]

\* C37: with the file service succeeding, every file whose content differs from
\* its last saved content is eventually written (its content becomes the saved
\* one), also a file that was edited and deselected before the auto-save
\* timeout fired and is not selected again.
C37_NoEditLost == \A f \in Files : Dirty(f) ~> ~Dirty(f)
====
